---- MODULE Spec2Model ----
(***************************************************************************)
(* A model of seccs.SecCSLite (src/seccs/__init__.py) and of its reference *)
(* counter (src/seccs/rc.py): the chunk-tree engine that stores contents   *)
(* as content-defined multi-level trees in a key-value database.           *)
(*                                                                         *)
(* Bytes are small integers.  A digest is the record of everything the     *)
(* wrapper's digest function binds (an ideal, collision-free digest).      *)
(* The crypto wrappers (seccs.crypto_wrapper) and the chunker              *)
(* (fastchunking) are not part of src/: they are modelled from their       *)
(* contracts in spec.md, sections 4.2 and 4.3.                             *)
(***************************************************************************)
EXTENDS Integers, Sequences, FiniteSets, Bags, TLC

(***************************************************************************)
(* Bounds of the model.                                                    *)
(***************************************************************************)
\* most handles that are outstanding at a time
MaxHandles == 2
\* the wrapper's digest size R, in bytes
DIGEST_SIZE == 1
\* the chunker's window size W, in bytes
window_size == 2

\* the target chunk size S: the smallest one the constructor accepts
chunk_size == 2 * DIGEST_SIZE

Bytes == {0, 1}

\* The contents that are put: the empty content; single leaves, two of
\* them equal up to leaf padding; contents of height 1 and 2 that share
\* leaves and superchunks with each other, list a child twice, or consist
\* of one leaf.
Contents ==
    {<<>>, <<1>>, <<1, 0>>,
     <<0, 1, 1>>, <<1, 1, 1>>, <<0, 1, 1, 1>>,
     <<0, 1, 1, 1, 1>>, <<0, 1, 1, 0, 1>>, <<1, 1, 0, 1, 1>>,
     <<0, 0, 0, 0, 0>>}

(***************************************************************************)
(* Generic helpers.                                                        *)
(***************************************************************************)
NoErr == ""

Min(a, b) == IF a < b THEN a ELSE b

RECURSIVE Zeros(_)
Zeros(n) == IF n <= 0 THEN <<>> ELSE <<0>> \o Zeros(n - 1)

RECURSIVE Pow(_, _)
Pow(b, e) == IF e = 0 THEN 1 ELSE b * Pow(b, e - 1)

\* dict[key] = value
SetItem(d, key, value) ==
    [x \in DOMAIN d \cup {key} |-> IF x = key THEN value ELSE d[x]]

\* del dict[key]
DelItem(d, key) == [x \in DOMAIN d \ {key} |-> d[x]]

EmptyDict == [x \in {} |-> 0]

(***************************************************************************)
(* Node values.  A leaf is a byte string, a superchunk a list of child     *)
(* digests; `list` is Python's isinstance(v, list).                        *)
(***************************************************************************)
LeafValue(bytes) == [list |-> FALSE, leaf |-> bytes, kids |-> <<>>]
ListValue(keys) == [list |-> TRUE, leaf |-> <<>>, kids |-> keys]

(***************************************************************************)
(* Level schedule.                                                         *)
(***************************************************************************)
\* lambda L: int(S ** (L + 1) / R ** L)
height_to_chunk_size_fn(L) ==
    Pow(chunk_size, L + 1) \div Pow(DIGEST_SIZE, L)

\* int(max(ceil(log(size / S) / log(S / R)), 0)) if size != 0 else 0:
\* the least L >= 0 with size <= S * (S / R) ** L
RECURSIVE LeastHeight(_, _)
LeastHeight(size, L) ==
    IF size * Pow(DIGEST_SIZE, L) <= Pow(chunk_size, L + 1)
    THEN L
    ELSE LeastHeight(size, L + 1)

length_to_height_fn(size) == IF size # 0 THEN LeastHeight(size, 0) ELSE 0

(***************************************************************************)
(* Crypto wrappers (spec.md 4.2).  dr: is_root is part of the digest;      *)
(* aead: the stored value is a ciphertext; keyed: the error raised is      *)
(* AuthenticityError; pad: leaves shorter than S are padded with zeros.    *)
(***************************************************************************)
SHA_256 ==
    [name |-> "SHA_256", dr |-> FALSE, aead |-> FALSE, keyed |-> FALSE, pad |-> FALSE]
HMAC_SHA_256 ==
    [name |-> "HMAC_SHA_256", dr |-> FALSE, aead |-> FALSE, keyed |-> TRUE, pad |-> FALSE]
HMAC_SHA_256_DISTINGUISHED_ROOT ==
    [name |-> "HMAC_SHA_256_DR", dr |-> TRUE, aead |-> FALSE, keyed |-> TRUE, pad |-> FALSE]
AES_SIV_256 ==
    [name |-> "AES_SIV_256", dr |-> FALSE, aead |-> TRUE, keyed |-> TRUE, pad |-> FALSE]
AES_SIV_256_DISTINGUISHED_ROOT ==
    [name |-> "AES_SIV_256_DR", dr |-> TRUE, aead |-> TRUE, keyed |-> TRUE, pad |-> FALSE]
HMAC_SHA_256_DISTINGUISHED_ROOT_WITH_LEAF_PADDING ==
    [name |-> "HMAC_SHA_256_DR_LP", dr |-> TRUE, aead |-> FALSE, keyed |-> TRUE, pad |-> TRUE]

Wrappers ==
    {SHA_256, HMAC_SHA_256, HMAC_SHA_256_DISTINGUISHED_ROOT, AES_SIV_256,
     AES_SIV_256_DISTINGUISHED_ROOT,
     HMAC_SHA_256_DISTINGUISHED_ROOT_WITH_LEAF_PADDING}

\* leaf padding on wrap: only leaves, only up to the chunk size
PadLeaf(w, plain, height) ==
    IF w.pad /\ height = 0 /\ Len(plain.leaf) < chunk_size
    THEN [plain EXCEPT !.leaf = @ \o Zeros(chunk_size - Len(@))]
    ELSE plain

\* the digest binds the (padded) plaintext and the height, and is_root
\* under a distinguished-root wrapper only
DigestOf(w, plain, height, is_root) ==
    [h |-> height, root |-> w.dr /\ is_root,
     leaf |-> plain.leaf, kids |-> plain.kids]

\* the stored value: the plaintext as is (hash and MAC wrappers), or a
\* ciphertext of the same length that is keyed by the SIV tag
CipherOf(w, plain, height, is_root) ==
    [enc |-> w.aead,
     ivh |-> IF w.aead THEN height ELSE 0,
     ivr |-> w.aead /\ w.dr /\ is_root,
     leaf |-> plain.leaf, kids |-> plain.kids]

wrap_value(w, value, height, is_root) ==
    LET plain == PadLeaf(w, [leaf |-> value.leaf, kids |-> value.kids], height)
    IN [value |-> CipherOf(w, plain, height, is_root),
        digest |-> DigestOf(w, plain, height, is_root)]

WrapperError(w) == IF w.keyed THEN "AuthenticityError" ELSE "IntegrityError"

\* unwrap: decrypt, verify the digest, strip the padding when the caller
\* gives the true length (length = -1: not known, nothing is stripped)
unwrap_value(w, value, digest, height, is_root, length) ==
    LET plain == [leaf |-> value.leaf, kids |-> value.kids]
        genuine == /\ value = CipherOf(w, plain, height, is_root)
                   /\ digest = DigestOf(w, plain, height, is_root)
    IN IF ~genuine
       THEN [err |-> WrapperError(w), val |-> LeafValue(<<>>)]
       ELSE [err |-> NoErr,
             val |-> IF w.pad /\ height = 0 /\ length >= 0
                     THEN LeafValue(SubSeq(plain.leaf, 1, Min(length, Len(plain.leaf))))
                     ELSE [list |-> height > 0, leaf |-> plain.leaf,
                           kids |-> plain.kids]]

(***************************************************************************)
(* Chunker (spec.md 4.3): a boundary after position p whenever the         *)
(* fingerprint of the window_size bytes ending at p triggers; the          *)
(* fingerprint is the sum of the window, and it triggers at every level    *)
(* below it.  `prepend` zero bytes stand before the content.               *)
(***************************************************************************)
RECURSIVE WindowSum(_, _, _)
WindowSum(m, p, n) ==
    IF n = 0 \/ p < 1 THEN 0 ELSE m[p] + WindowSum(m, p - 1, n - 1)

RECURSIVE BoundariesFrom(_, _, _)
BoundariesFrom(m, levels, p) ==
    IF p > Len(m) THEN <<>>
    ELSE LET level == Min(WindowSum(m, p, window_size), levels) - 1
         IN (IF level >= 0 THEN <<[pos |-> p, level |-> level]>> ELSE <<>>)
            \o BoundariesFrom(m, levels, p + 1)

\* chunker.next_chunk_boundaries_levels(m, prepend) of a chunker made for
\* `levels` chunk sizes; the padding bytes are zeros and add nothing to a sum
next_chunk_boundaries_levels(m, levels, prepend) ==
    IF prepend >= window_size - 1 THEN BoundariesFrom(m, levels, 1)
    ELSE BoundariesFrom(m, levels, window_size - prepend)

(***************************************************************************)
(* Reference counter (rc.py).  st is the store a call works on:            *)
(* db the node database, rc the counter database, err the exception        *)
(* raised (NoErr: none), log the mutations made, in order.                 *)
(***************************************************************************)
Store(db, rc) == [db |-> db, rc |-> rc, err |-> NoErr, log |-> <<>>]

Raise(st, e) == [st EXCEPT !.err = e]

\* an inc that starts every counter anew
inc_restarting(st, key) ==
    [st |-> [st EXCEPT !.rc = SetItem(@, key, 1),
                       !.log = Append(@, [op |-> "inc", k |-> key])],
     count |-> 1]

\* DatabaseReferenceCounter.inc
inc(st, key) ==
    LET new_count == (IF key \in DOMAIN st.rc THEN st.rc[key] ELSE 0) + 1
    IN [st |-> [st EXCEPT !.rc = SetItem(@, key, new_count),
                          !.log = Append(@, [op |-> "inc", k |-> key])],
        count |-> new_count]

\* a key-suffix inc that counts under the key itself
KeySuffixDatabaseReferenceCounter_inc_unsuffixed(st, key, suffix) ==
    inc(st, key)

\* KeySuffixDatabaseReferenceCounter.inc
KeySuffixDatabaseReferenceCounter_inc(st, key, suffix) ==
    inc(st, key \o suffix)

\* a dec that stores a count of 0 where dec deletes the counter
dec_storing_zero(st, key) ==
    IF key \notin DOMAIN st.rc
    THEN [st |-> Raise(st, "KeyError"), count |-> -1]
    ELSE LET new_count == st.rc[key] - 1
         IN [st |-> [st EXCEPT
                       !.rc = SetItem(@, key, new_count),
                       !.log = Append(@, [op |-> "dec", k |-> key])],
             count |-> new_count]

\* a dec that deletes the counter one reference early
dec_deleting_early(st, key) ==
    IF key \notin DOMAIN st.rc
    THEN [st |-> Raise(st, "KeyError"), count |-> -1]
    ELSE LET new_count == st.rc[key] - 1
         IN [st |-> [st EXCEPT
                       !.rc = IF new_count <= 1 THEN DelItem(@, key)
                              ELSE SetItem(@, key, new_count),
                       !.log = Append(@, [op |-> "dec", k |-> key])],
             count |-> new_count]

\* a dec that takes an absent counter for a count of 0
dec_absent_as_zero(st, key) ==
    LET new_count == (IF key \in DOMAIN st.rc THEN st.rc[key] ELSE 0) - 1
    IN [st |-> [st EXCEPT
                  !.rc = IF new_count = 0 THEN DelItem(@, key)
                         ELSE SetItem(@, key, new_count),
                  !.log = Append(@, [op |-> "dec", k |-> key])],
        count |-> new_count]

\* DatabaseReferenceCounter.dec
dec(st, key) ==
    IF key \notin DOMAIN st.rc
    THEN [st |-> Raise(st, "KeyError"), count |-> -1]
    ELSE LET new_count == st.rc[key] - 1
         IN [st |-> [st EXCEPT
                       !.rc = IF new_count = 0 THEN DelItem(@, key)
                              ELSE SetItem(@, key, new_count),
                       !.log = Append(@, [op |-> "dec", k |-> key])],
             count |-> new_count]

\* KeySuffixDatabaseReferenceCounter.dec
KeySuffixDatabaseReferenceCounter_dec(st, key, suffix) ==
    dec(st, key \o suffix)

(***************************************************************************)
(* Content references: struct.pack('!{R}sQ', k, l), the digest followed    *)
(* by the length as eight big-endian bytes.                                *)
(***************************************************************************)
RECURSIVE BigEndian(_, _)
BigEndian(n, width) ==
    IF width = 0 THEN <<>>
    ELSE Append(BigEndian(n \div 256, width - 1), n % 256)

RECURSIVE FromBigEndian(_)
FromBigEndian(bytes) ==
    IF bytes = <<>> THEN 0
    ELSE 256 * FromBigEndian(SubSeq(bytes, 1, Len(bytes) - 1))
         + bytes[Len(bytes)]

pack_content_reference(k, l) == [k |-> k, q |-> BigEndian(l, 8)]

\* an unpack that takes the length from whatever follows the digest
unpack_content_reference_unsized(ref) ==
    [err |-> NoErr, k |-> ref.k, l |-> FromBigEndian(ref.q)]

\* struct.unpack raises struct.error unless the input has R + 8 bytes
unpack_content_reference(ref) ==
    IF Len(ref.q) # 8
    THEN [err |-> "struct.error", k |-> ref.k, l |-> 0]
    ELSE [err |-> NoErr, k |-> ref.k, l |-> FromBigEndian(ref.q)]

(***************************************************************************)
(* Helper functions for storing and retrieving chunk tree nodes.           *)
(***************************************************************************)
\* a _get_node that returns an empty node for a key that is not stored
_get_node_defaulting(st, w, k, h, root_h, l) ==
    IF k \notin DOMAIN st.db
    THEN [err |-> NoErr, none |-> FALSE,
          val |-> IF h > 0 THEN ListValue(<<>>) ELSE LeafValue(<<>>)]
    ELSE LET node(u) == [err |-> u.err, none |-> FALSE, val |-> u.val]
         IN node(unwrap_value(w, st.db[k], k, h, h = root_h, l))

\* a _get_node that unwraps every node as a non-root node
_get_node_never_root(st, w, k, h, root_h, l) ==
    IF k \notin DOMAIN st.db
    THEN [err |-> "KeyError", none |-> FALSE, val |-> LeafValue(<<>>)]
    ELSE LET node(u) == [err |-> u.err, none |-> FALSE, val |-> u.val]
         IN node(unwrap_value(w, st.db[k], k, h, FALSE, l))

\* SecCSLite._get_node: the node (none: unwrap returned None) or err
_get_node(st, w, k, h, root_h, l) ==
    IF k \notin DOMAIN st.db
    THEN [err |-> "KeyError", none |-> FALSE, val |-> LeafValue(<<>>)]
    ELSE LET node(u) == [err |-> u.err, none |-> FALSE, val |-> u.val]
         IN node(unwrap_value(w, st.db[k], k, h, h = root_h, l))

RECURSIVE IncChildrenOnce(_, _, _)
\* an IncChildren that counts a child the superchunk lists twice only once
IncChildrenOnce(st, kids, i) ==
    IF i > Len(kids) THEN st
    ELSE IF \E j \in 1..(i - 1) : kids[j] = kids[i]
    THEN IncChildrenOnce(st, kids, i + 1)
    ELSE IncChildrenOnce(inc(st, kids[i]).st, kids, i + 1)

RECURSIVE IncChildren(_, _, _)
\* for (chunk_id, ) in v: self._reference_counter.inc(chunk_id)
IncChildren(st, kids, i) ==
    IF i > Len(kids) THEN st
    ELSE IncChildren(inc(st, kids[i]).st, kids, i + 1)

\* a _store_node that increments the children on a dedup hit too
_store_node_reincrementing(st, w, v, h, root_h) ==
    LET counted == IF v.list THEN IncChildren(st, v.kids, 1) ELSE st
        new(k, serialized_chunk) ==
            [st |-> [counted EXCEPT
                       !.db = SetItem(@, k, serialized_chunk),
                       !.log = Append(@, [op |-> "write", k |-> k])],
             k |-> k, is_new |-> TRUE]
        existing(k, serialized_chunk, probe) ==
            IF probe.err # NoErr
            THEN [st |-> Raise(st, probe.err), k |-> k, is_new |-> FALSE]
            ELSE IF ~probe.none
            THEN [st |-> counted, k |-> k, is_new |-> FALSE]
            ELSE new(k, serialized_chunk)
        store(wrapped) ==
            IF wrapped.digest \in DOMAIN st.db
            THEN existing(wrapped.digest, wrapped.value,
                          _get_node(st, w, wrapped.digest, h, root_h, -1))
            ELSE new(wrapped.digest, wrapped.value)
    IN store(wrap_value(w, v, h, h = root_h))

\* a _store_node that writes a new superchunk without incrementing its
\* children
_store_node_without_inc(st, w, v, h, root_h) ==
    LET new(k, serialized_chunk) ==
            [st |-> [st EXCEPT
                       !.db = SetItem(@, k, serialized_chunk),
                       !.log = Append(@, [op |-> "write", k |-> k])],
             k |-> k, is_new |-> TRUE]
        existing(k, serialized_chunk, probe) ==
            IF probe.err # NoErr
            THEN [st |-> Raise(st, probe.err), k |-> k, is_new |-> FALSE]
            ELSE IF ~probe.none
            THEN [st |-> st, k |-> k, is_new |-> FALSE]
            ELSE new(k, serialized_chunk)
        store(wrapped) ==
            IF wrapped.digest \in DOMAIN st.db
            THEN existing(wrapped.digest, wrapped.value,
                          _get_node(st, w, wrapped.digest, h, root_h, -1))
            ELSE new(wrapped.digest, wrapped.value)
    IN store(wrap_value(w, v, h, h = root_h))

\* a _store_node that writes a new superchunk before it increments its
\* children
_store_node_writing_first(st, w, v, h, root_h) ==
    LET written(k, serialized_chunk) ==
            [st EXCEPT !.db = SetItem(@, k, serialized_chunk),
                       !.log = Append(@, [op |-> "write", k |-> k])]
        new(k, serialized_chunk) ==
            [st |-> IF v.list
                    THEN IncChildren(written(k, serialized_chunk), v.kids, 1)
                    ELSE written(k, serialized_chunk),
             k |-> k, is_new |-> TRUE]
        existing(k, serialized_chunk, probe) ==
            IF probe.err # NoErr
            THEN [st |-> Raise(st, probe.err), k |-> k, is_new |-> FALSE]
            ELSE IF ~probe.none
            THEN [st |-> st, k |-> k, is_new |-> FALSE]
            ELSE new(k, serialized_chunk)
        store(wrapped) ==
            IF wrapped.digest \in DOMAIN st.db
            THEN existing(wrapped.digest, wrapped.value,
                          _get_node(st, w, wrapped.digest, h, root_h, -1))
            ELSE new(wrapped.digest, wrapped.value)
    IN store(wrap_value(w, v, h, h = root_h))

\* SecCSLite._store_node: ((k, ), is_new) and the store it leaves
_store_node(st, w, v, h, root_h) ==
    LET \* lines 296-304: inc the children of a new superchunk, write the node
        new(k, serialized_chunk) ==
            [st |-> [(IF v.list THEN IncChildren(st, v.kids, 1) ELSE st) EXCEPT
                       !.db = SetItem(@, k, serialized_chunk),
                       !.log = Append(@, [op |-> "write", k |-> k])],
             k |-> k, is_new |-> TRUE]
        \* lines 293-294: k is in the database, probe is its _get_node
        existing(k, serialized_chunk, probe) ==
            IF probe.err # NoErr
            THEN [st |-> Raise(st, probe.err), k |-> k, is_new |-> FALSE]
            ELSE IF ~probe.none
            THEN [st |-> st, k |-> k, is_new |-> FALSE]
            ELSE new(k, serialized_chunk)
        store(wrapped) ==
            IF wrapped.digest \in DOMAIN st.db
            THEN existing(wrapped.digest, wrapped.value,
                          _get_node(st, w, wrapped.digest, h, root_h, -1))
            ELSE new(wrapped.digest, wrapped.value)
    IN store(wrap_value(w, v, h, h = root_h))

(***************************************************************************)
(* Realization of the operations.                                          *)
(***************************************************************************)
\* a boundaries list that keeps a boundary of the chunker at the end of the
\* content and appends (len(m), h-1) after it
BoundariesOf_appending(m, h) ==
    <<[pos |-> 0, level |-> h - 1]>>
    \o next_chunk_boundaries_levels(m, h, window_size - 1)
    \o <<[pos |-> Len(m), level |-> h - 1]>>

\* the boundaries list of _put_chunk: (0, h-1), the chunker's boundaries,
\* and (len(m), h-1) in place of a chunker boundary at the end
BoundariesOf(m, h) ==
    LET first == <<[pos |-> 0, level |-> h - 1]>>
        close(found) ==
            Append(IF found[Len(found)].pos = Len(m)
                   THEN SubSeq(found, 1, Len(found) - 1)
                   ELSE found,
                   [pos |-> Len(m), level |-> h - 1])
    IN close(first \o next_chunk_boundaries_levels(m, h, window_size - 1))

RECURSIVE InsertComplete(_, _, _, _, _)
\* for height in range(0, boundary_height + 1): store the node that is
\* complete at this height and append its key to the node one level up
InsertComplete(acc, w, height, boundary_height, root_h) ==
    IF height > boundary_height \/ acc.st.err # NoErr THEN acc
    ELSE LET appended(r) ==
                 [st |-> r.st,
                  nodes_levels |->
                      [acc.nodes_levels EXCEPT
                         ![height + 1] = ListValue(Append(@.kids, r.k)),
                         ![height] = ListValue(<<>>)]]
         IN InsertComplete(
                appended(_store_node(acc.st, w, acc.nodes_levels[height],
                                     height, root_h)),
                w, height + 1, boundary_height, root_h)

RECURSIVE ProcessChunks(_, _, _, _, _, _)
\* for ((start, _), (end, boundary_height)) in zip(boundaries, boundaries[1:])
ProcessChunks(acc, w, m, boundaries, i, root_h) ==
    IF i >= Len(boundaries) \/ acc.st.err # NoErr THEN acc
    ELSE LET start_position == boundaries[i].pos
             end_position == boundaries[i + 1].pos
             placed == [acc EXCEPT !.nodes_levels[0] =
                          LeafValue(SubSeq(m, start_position + 1,
                                           end_position))]
         IN ProcessChunks(
                InsertComplete(placed, w, 0, boundaries[i + 1].level, root_h),
                w, m, boundaries, i + 1, root_h)

\* a _put_chunk that stores every content part as one node, unchunked
_put_chunk_unchunked(st, w, m, h, root_h) ==
    _store_node(st, w, LeafValue(m), h, root_h)

\* SecCSLite._put_chunk
_put_chunk(st, w, m, h, root_h) ==
    IF h = 0 THEN _store_node(st, w, LeafValue(m), h, root_h)
    ELSE LET root(built) ==
                 IF built.st.err # NoErr
                 THEN [st |-> built.st,
                       k |-> DigestOf(w, LeafValue(<<>>), 0, FALSE),
                       is_new |-> FALSE]
                 ELSE _store_node(built.st, w, built.nodes_levels[h], h,
                                  root_h)
         IN root(ProcessChunks(
                     [st |-> st,
                      nodes_levels |-> [x \in 0..h |-> ListValue(<<>>)]],
                     w, m, BoundariesOf(m, h), 1, root_h))

RECURSIVE GetNodesSkipping(_, _, _, _, _, _)
\* a GetNodes that leaves out the nodes whose retrieval fails
GetNodesSkipping(st, w, chunks, i, height, root_h) ==
    IF i > Len(chunks) THEN [err |-> NoErr, kids |-> <<>>, leaf |-> <<>>]
    ELSE LET chained(n, rest) ==
                 IF n.err # NoErr \/ n.none THEN rest
                 ELSE [err |-> rest.err, kids |-> n.val.kids \o rest.kids,
                       leaf |-> n.val.leaf \o rest.leaf]
         IN chained(_get_node(st, w, chunks[i], height, root_h, -1),
                    GetNodesSkipping(st, w, chunks, i + 1, height, root_h))

RECURSIVE GetNodes(_, _, _, _, _, _)
\* [self._get_node(k, height, root_h) for (k, ) in chunks], chained
GetNodes(st, w, chunks, i, height, root_h) ==
    IF i > Len(chunks) THEN [err |-> NoErr, kids |-> <<>>, leaf |-> <<>>]
    ELSE LET chained(n, rest) ==
                 IF n.err # NoErr
                 THEN [err |-> n.err, kids |-> <<>>, leaf |-> <<>>]
                 ELSE IF n.none
                 THEN [err |-> "TypeError", kids |-> <<>>, leaf |-> <<>>]
                 ELSE [err |-> rest.err, kids |-> n.val.kids \o rest.kids,
                       leaf |-> n.val.leaf \o rest.leaf]
         IN chained(_get_node(st, w, chunks[i], height, root_h, -1),
                    GetNodes(st, w, chunks, i + 1, height, root_h))

RECURSIVE GetLevels(_, _, _, _, _)
\* for height in range(h, 0, -1): chunks = the children of chunks
GetLevels(st, w, chunks, height, root_h) ==
    IF height = 0 THEN GetNodes(st, w, chunks, 1, 0, root_h)
    ELSE LET below(got) ==
                 IF got.err # NoErr THEN got
                 ELSE GetLevels(st, w, got.kids, height - 1, root_h)
         IN below(GetNodes(st, w, chunks, 1, height, root_h))

\* SecCSLite._get_chunk: l is not used
_get_chunk(st, w, k, h, root_h, l) ==
    LET joined(got) ==
            [err |-> got.err, val |-> IF got.err = NoErr THEN got.leaf ELSE <<>>]
    IN joined(GetLevels(st, w, <<k>>, h, root_h))

RECURSIVE _delete_chunk(_, _, _, _, _), DeleteChildren(_, _, _, _, _, _)
RECURSIVE DeleteChildrenKeepingThem(_, _, _, _, _, _)
\* a DeleteChildren that decrements the children and deletes none of them
DeleteChildrenKeepingThem(st, w, kids, i, h, root_h) ==
    IF i > Len(kids) \/ st.err # NoErr THEN st
    ELSE DeleteChildrenKeepingThem(dec(st, kids[i]).st, w, kids, i + 1, h,
                                   root_h)

\* for (k_child, ) in v: if dec(k_child) == 0: _delete_chunk(k_child, h - 1)
DeleteChildren(st, w, kids, i, h, root_h) ==
    IF i > Len(kids) \/ st.err # NoErr THEN st
    ELSE LET child(d) ==
                 IF d.st.err = NoErr /\ d.count = 0
                 THEN _delete_chunk(d.st, w, kids[i], h - 1, root_h)
                 ELSE d.st
         IN DeleteChildren(child(dec(st, kids[i])), w, kids, i + 1, h, root_h)

\* a _delete_chunk that removes the node and leaves its children alone
_delete_chunk_shallow(st, w, k, h, root_h) ==
    IF k \notin DOMAIN st.db THEN Raise(st, "KeyError")
    ELSE [st EXCEPT !.db = DelItem(@, k),
                    !.log = Append(@, [op |-> "del", k |-> k])]

\* a _delete_chunk that removes superchunks only and leaves the leaves in
\* the database
_delete_chunk_keeping_leaves(st, w, k, h, root_h) ==
    LET children(v) ==
            IF v.err # NoErr THEN Raise(st, v.err)
            ELSE IF v.none THEN Raise(st, "TypeError")
            ELSE DeleteChildren(st, w, v.val.kids, 1, h, root_h)
        node(st1) ==
            IF st1.err # NoErr THEN st1
            ELSE IF k \notin DOMAIN st1.db THEN Raise(st1, "KeyError")
            ELSE [st1 EXCEPT !.db = DelItem(@, k),
                             !.log = Append(@, [op |-> "del", k |-> k])]
    IN IF h > 0
       THEN node(children(_get_node(st, w, k, h, root_h, -1)))
       ELSE st

\* SecCSLite._delete_chunk
_delete_chunk(st, w, k, h, root_h) ==
    LET children(v) ==
            IF v.err # NoErr THEN Raise(st, v.err)
            ELSE IF v.none THEN Raise(st, "TypeError")
            ELSE DeleteChildren(st, w, v.val.kids, 1, h, root_h)
        node(st1) ==
            IF st1.err # NoErr THEN st1
            ELSE IF k \notin DOMAIN st1.db THEN Raise(st1, "KeyError")
            ELSE [st1 EXCEPT !.db = DelItem(@, k),
                             !.log = Append(@, [op |-> "del", k |-> k])]
    IN node(IF h > 0 THEN children(_get_node(st, w, k, h, root_h, -1))
            ELSE st)

\* a _delete_content that deletes the root whatever count dec returns
_delete_content_unconditional(st, w, k, h, root_h, l, ignore_rc) ==
    LET counted(d) ==
            IF d.st.err # NoErr THEN d.st
            ELSE _delete_chunk(d.st, w, k, h, root_h)
    IN IF ignore_rc THEN _delete_chunk(st, w, k, h, root_h)
       ELSE counted(dec(st, k))

\* SecCSLite._delete_content
_delete_content(st, w, k, h, root_h, l, ignore_rc) ==
    LET counted(d) ==
            IF d.st.err # NoErr THEN d.st
            ELSE IF d.count = 0 THEN _delete_chunk(d.st, w, k, h, root_h)
            ELSE d.st
    IN IF ignore_rc THEN _delete_chunk(st, w, k, h, root_h)
       ELSE counted(dec(st, k))

(***************************************************************************)
(* Public interface.                                                       *)
(***************************************************************************)
\* a put_content_and_check_if_new that never increments the root's counter
put_content_and_check_if_new_uncounted(st, w, m, ignore_rc) ==
    LET l == Len(m)
        referenced(put) ==
            [st |-> put.st,
             ref |-> pack_content_reference(put.k, l),
             is_new |-> put.is_new]
        at(h) == referenced(_put_chunk(st, w, m, h, h))
    IN at(length_to_height_fn(l))

\* a put_content_and_check_if_new that counts the root whatever ignore_rc is
put_content_and_check_if_new_counting(st, w, m, ignore_rc) ==
    LET l == Len(m)
        referenced(put) ==
            [st |-> IF put.st.err = NoErr
                    THEN inc(put.st, put.k).st
                    ELSE put.st,
             ref |-> pack_content_reference(put.k, l),
             is_new |-> put.is_new]
        at(h) == referenced(_put_chunk(st, w, m, h, h))
    IN at(length_to_height_fn(l))

\* SecCSLite.put_content_and_check_if_new
put_content_and_check_if_new(st, w, m, ignore_rc) ==
    LET l == Len(m)
        referenced(put) ==
            [st |-> IF put.st.err = NoErr /\ ~ignore_rc
                    THEN inc(put.st, put.k).st
                    ELSE put.st,
             ref |-> pack_content_reference(put.k, l),
             is_new |-> put.is_new]
        at(h) == referenced(_put_chunk(st, w, m, h, h))
    IN at(length_to_height_fn(l))

\* SecCSLite.put_content
put_content(st, w, m, ignore_rc) ==
    LET first(r) == [st |-> r.st, ref |-> r.ref]
    IN first(put_content_and_check_if_new(st, w, m, ignore_rc))

\* SecCSLite.get_content
get_content(st, w, ref) ==
    LET at(k, l, h) == _get_chunk(st, w, k, h, h, l)
        of(kl) == IF kl.err # NoErr THEN [err |-> kl.err, val |-> <<>>]
                  ELSE at(kl.k, kl.l, length_to_height_fn(kl.l))
    IN of(unpack_content_reference(ref))

\* SecCSLite.delete_content
delete_content(st, w, ref, ignore_rc) ==
    LET at(k, l, h) == _delete_content(st, w, k, h, h, l, ignore_rc)
        of(kl) == IF kl.err # NoErr THEN Raise(st, kl.err)
                  ELSE at(kl.k, kl.l, length_to_height_fn(kl.l))
    IN of(unpack_content_reference(ref))

(***************************************************************************)
(* The engine as a state machine.  database and counters are the two       *)
(* dicts the engine writes (the node database, and the database of the     *)
(* reference counter), crypto_wrapper is the configuration.  The other     *)
(* variables record the history: handles is the bag of content references  *)
(* that were returned by a put and not yet consumed by a delete, last the  *)
(* last call and its result, and trail the puts, then deletes of these     *)
(* puts, made since the store was in the state base.                       *)
(***************************************************************************)
VARIABLES database, counters, crypto_wrapper, handles, last, base, trail

vars == <<database, counters, crypto_wrapper, handles, last, base, trail>>

NoRef == pack_content_reference(DigestOf(SHA_256, LeafValue(<<>>), 0, FALSE), 0)

Call(op, m, ref) ==
    [op |-> op, m |-> m, ref |-> ref, is_new |-> FALSE, err |-> NoErr,
     out |-> <<>>, after_put |-> FALSE]

Snapshot(db, rc) == [db |-> db, rc |-> rc]

\* how often the trail puts m, less how often it deletes m
RECURSIVE Pending(_, _)
Pending(tr, m) ==
    IF tr = <<>> THEN 0
    ELSE Pending(Tail(tr), m)
         + (IF Head(tr).m # m THEN 0 ELSE IF Head(tr).op = "put" THEN 1 ELSE -1)

OnlyPuts(tr) == \A i \in 1..Len(tr) : tr[i].op = "put"

Init ==
    /\ database = EmptyDict
    /\ counters = EmptyDict
    /\ crypto_wrapper \in Wrappers
    /\ handles = EmptyBag
    /\ last = Call("new", <<>>, NoRef)
    /\ base = Snapshot(EmptyDict, EmptyDict)
    /\ trail = <<>>

\* put_content_and_check_if_new(m)
PutContent(m) ==
    /\ BagCardinality(handles) < MaxHandles
    /\ \E r \in {put_content_and_check_if_new(
                     Store(database, counters), crypto_wrapper, m, FALSE)} :
          /\ database' = r.st.db
          /\ counters' = r.st.rc
          /\ handles' = IF r.st.err = NoErr
                        THEN handles (+) SetToBag({[ref |-> r.ref, m |-> m]})
                        ELSE handles
          /\ last' = [Call("put", m, r.ref) EXCEPT
                        !.is_new = r.is_new, !.err = r.st.err]
    /\ IF OnlyPuts(trail)
       THEN /\ trail' = Append(trail, [op |-> "put", m |-> m])
            /\ base' = base
       ELSE /\ trail' = <<[op |-> "put", m |-> m]>>
            /\ base' = Snapshot(database, counters)
    /\ UNCHANGED crypto_wrapper

\* get_content(ref) of an outstanding content reference
GetContent(e) ==
    /\ \E r \in {get_content(Store(database, counters), crypto_wrapper,
                            e.ref)} :
          last' = [Call("get", e.m, e.ref) EXCEPT
                     !.err = r.err, !.out = r.val,
                     !.after_put = (last.op = "put" /\ last.ref = e.ref)]
    /\ UNCHANGED <<database, counters, crypto_wrapper, handles, base, trail>>

\* delete_content(ref), which consumes an outstanding content reference
DeleteContent(e) ==
    /\ \E st \in {delete_content(
                      Store(database, counters), crypto_wrapper, e.ref, FALSE)} :
          /\ database' = st.db
          /\ counters' = st.rc
          /\ last' = [Call("delete", e.m, e.ref) EXCEPT !.err = st.err]
          /\ IF Pending(trail, e.m) > 0
             THEN /\ trail' = Append(trail, [op |-> "delete", m |-> e.m])
                  /\ base' = base
             ELSE /\ trail' = <<>>
                  /\ base' = Snapshot(st.db, st.rc)
    /\ handles' = handles (-) SetToBag({e})
    /\ UNCHANGED crypto_wrapper

Next ==
    \/ \E m \in Contents : PutContent(m)
    \/ \E e \in BagToSet(handles) : GetContent(e)
    \/ \E e \in BagToSet(handles) : DeleteContent(e)

Spec == Init /\ [][Next]_vars

(***************************************************************************)
(* What the store holds, read off the two databases.                       *)
(***************************************************************************)
\* the child digests a stored superchunk lists, in order
ChildrenOf(d) == IF d.h > 0 THEN database[d].kids ELSE <<>>

\* the child slots of the stored superchunks
Slots ==
    UNION {{<<d, i>> : i \in DOMAIN ChildrenOf(d)} : d \in DOMAIN database}

\* the number of child slots that hold k
SlotsHolding(k) == Cardinality({p \in Slots : ChildrenOf(p[1])[p[2]] = k})

RECURSIVE CopiesOver(_, _)
CopiesOver(B, es) ==
    IF es = {} THEN 0
    ELSE LET e == CHOOSE x \in es : TRUE
         IN CopiesIn(e, B) + CopiesOver(B, es \ {e})

\* the number of outstanding handles whose root digest is k
HandlesRootedAt(k) ==
    CopiesOver(handles, {e \in BagToSet(handles) : e.ref.k = k})

CountOf(k) == IF k \in DOMAIN counters THEN counters[k] ELSE 0

\* every digest the store or a handle mentions
KnownDigests ==
    DOMAIN database \cup DOMAIN counters
    \cup {ChildrenOf(p[1])[p[2]] : p \in Slots}
    \cup {e.ref.k : e \in BagToSet(handles)}

RECURSIVE ReachableFrom(_, _)
\* the digests of the tree of height h under k, as far as it is stored
ReachableFrom(k, h) ==
    {k} \cup
    IF h > 0 /\ k \in DOMAIN database
    THEN UNION {ReachableFrom(database[k].kids[i], h - 1) :
                    i \in DOMAIN database[k].kids}
    ELSE {}

\* the digests reachable from the outstanding handles
Reachable ==
    UNION {ReachableFrom(e.ref.k,
                         length_to_height_fn(unpack_content_reference(e.ref).l)) :
               e \in BagToSet(handles)}

RECURSIVE Replay(_, _)
\* the store after the puts of tr, in order, on the store snap
Replay(snap, tr) ==
    IF tr = <<>> THEN snap
    ELSE LET r == put_content(Store(snap.db, snap.rc), crypto_wrapper,
                              Head(tr).m, FALSE)
         IN Replay(Snapshot(r.st.db, r.st.rc), Tail(tr))

Now == Snapshot(database, counters)

Puts(tr) == SelectSeq(tr, LAMBDA c : c.op = "put")
Deletes(tr) == SelectSeq(tr, LAMBDA c : c.op = "delete")

\* the contents of tr are all m
AllOf(tr, m) == \A i \in 1..Len(tr) : tr[i].m = m

\* a and b have a node in common when each is put on an empty store
ShareNodes(a, b) ==
    LET E == Snapshot(EmptyDict, EmptyDict)
    IN DOMAIN Replay(E, <<[op |-> "put", m |-> a]>>).db
       \cap DOMAIN Replay(E, <<[op |-> "put", m |-> b]>>).db # {}

(***************************************************************************)
(* C1.  Round trip: a get_content of the handle that the put_content just  *)
(* before it returned gives back exactly the content that was put, for     *)
(* every content and every wrapper.                                        *)
(***************************************************************************)
RoundTrip ==
    /\ last.op = "put" /\ last.err = NoErr =>
           get_content(Store(database, counters), crypto_wrapper, last.ref)
               = [err |-> NoErr, val |-> last.m]
    /\ last.op = "get" /\ last.after_put =>
           last.err = NoErr /\ last.out = last.m

\* the same for the wrappers that do not pad leaves
RoundTripUnpadded == ~crypto_wrapper.pad => RoundTrip

(***************************************************************************)
(* C2.  Delete-invertibility: when a handle is deleted right after the put *)
(* that returned it, both databases are again what they were before the    *)
(* put.                                                                    *)
(***************************************************************************)
DeleteInvertibility ==
    LET n == Len(trail)
    IN (/\ n >= 2
        /\ trail[n].op = "delete"
        /\ trail[n - 1] = [op |-> "put", m |-> trail[n].m])
       => Now = Replay(base, SubSeq(trail, 1, n - 2))

\* a content was put on a store that shares a node with it, and deleted
DeleteInvertibilityWitness ==
    /\ Len(trail) = 3
    /\ last.op = "delete" /\ last.err = NoErr
    /\ trail[3].op = "delete" /\ trail[2] = [op |-> "put", m |-> trail[3].m]
    /\ trail[1].m # trail[3].m
    /\ ShareNodes(trail[1].m, trail[3].m)
    /\ length_to_height_fn(Len(trail[3].m)) >= 2

(***************************************************************************)
(* C3.  Outstanding handles stay retrievable: get_content of every handle  *)
(* that was returned by more puts than deletes consumed returns the        *)
(* content that was put.                                                   *)
(***************************************************************************)
OutstandingRetrievable ==
    \A e \in BagToSet(handles) :
        get_content(Store(database, counters), crypto_wrapper, e.ref)
            = [err |-> NoErr, val |-> e.m]

\* the same for the wrappers that do not pad leaves
OutstandingRetrievableUnpadded ==
    ~crypto_wrapper.pad => OutstandingRetrievable

(***************************************************************************)
(* C4.  Cross-content deletion: after the puts of two different contents   *)
(* a and b, in either order, and the delete of b's handle, both databases  *)
(* are what the put of a alone makes of the starting state.                *)
(***************************************************************************)
CrossContentDeletion ==
    (/\ Len(trail) = 3
     /\ trail[1].op = "put" /\ trail[2].op = "put" /\ trail[3].op = "delete"
     /\ trail[1].m # trail[2].m)
    => LET b == trail[3].m
           a == IF trail[1].m = b THEN trail[2].m ELSE trail[1].m
       IN Now = Replay(base, <<[op |-> "put", m |-> a]>>)

\* b was put before a, shares nodes with a, and was deleted
CrossContentDeletionWitness ==
    /\ Len(trail) = 3
    /\ last.op = "delete" /\ last.err = NoErr
    /\ trail[1].op = "put" /\ trail[2].op = "put" /\ trail[3].op = "delete"
    /\ trail[3].m = trail[1].m
    /\ trail[1].m # trail[2].m
    /\ ShareNodes(trail[1].m, trail[2].m)
    /\ length_to_height_fn(Len(trail[1].m)) >= 2 /\ length_to_height_fn(Len(trail[2].m)) >= 2

(***************************************************************************)
(* C5.  Delete of a duplicate: after n puts of one content and j deletes   *)
(* of the handles returned, both databases are what n - j puts make of the *)
(* starting state: after two puts and one delete the state after a single  *)
(* put, and after as many deletes as puts the starting state.              *)
(***************************************************************************)
DeleteOfDuplicate ==
    (/\ Len(Puts(trail)) >= 2
     /\ Len(Deletes(trail)) >= 1
     /\ AllOf(trail, trail[1].m))
    => Now = Replay(base, SubSeq(trail, 1,
                                 Len(Puts(trail)) - Len(Deletes(trail))))

\* a content of height 2 was put twice and deleted twice
DeleteOfDuplicateWitness ==
    /\ Len(Puts(trail)) = 2 /\ Len(Deletes(trail)) = 2
    /\ AllOf(trail, trail[1].m)
    /\ length_to_height_fn(Len(trail[1].m)) >= 2
    /\ last.op = "delete" /\ last.err = NoErr

(***************************************************************************)
(* C6.  Exact reclamation: once a delete_content has returned, the node    *)
(* keys in the database are exactly the digests reachable from the         *)
(* outstanding handles.                                                    *)
(***************************************************************************)
ExactReclamation ==
    last.op = "delete" => DOMAIN database = Reachable

\* a delete that left a content which shares nodes with the deleted one
ExactReclamationWitness ==
    /\ last.op = "delete" /\ last.err = NoErr
    /\ \E e \in BagToSet(handles) :
           /\ e.m # last.m
           /\ ShareNodes(e.m, last.m)
           /\ length_to_height_fn(Len(e.m)) >= 2

(***************************************************************************)
(* C7.  Counter equals in-edges: between operations the counter of every   *)
(* digest is the number of child slots of stored superchunks that hold it  *)
(* plus the number of outstanding handles it is the root of.               *)
(***************************************************************************)
CounterEqualsInEdges ==
    \A k \in KnownDigests : CountOf(k) = SlotsHolding(k) + HandlesRootedAt(k)

\* a digest that is held by two slots of one superchunk and is a root too
CounterEqualsInEdgesWitness ==
    \E k \in DOMAIN counters :
        /\ HandlesRootedAt(k) >= 1
        /\ \E d \in DOMAIN database :
               Cardinality({i \in DOMAIN ChildrenOf(d) : ChildrenOf(d)[i] = k}) >= 2

(***************************************************************************)
(* C8.  Node and counter agree: between operations a node is in the        *)
(* database exactly if its counter is there with a value of at least 1;    *)
(* and within every call each inc and each dec moves one counter by one,   *)
(* from absent to 1, or from 1 to absent.                                  *)
(***************************************************************************)
NodeCounterAgree ==
    /\ DOMAIN database = DOMAIN counters
    /\ \A k \in DOMAIN counters : counters[k] >= 1

RECURSIVE StepsOfOne(_, _, _)
\* the counter mutations of log, from the counters rc on, move by one and
\* end in the counters final
StepsOfOne(rc, log, final) ==
    IF log = <<>> THEN rc = final
    ELSE LET c == Head(log)
             before == Store(EmptyDict, rc)
             after == IF c.op = "inc" THEN inc(before, c.k).st.rc
                      ELSE IF c.op = "dec" THEN dec(before, c.k).st.rc
                      ELSE rc
             old == IF c.k \in DOMAIN rc THEN rc[c.k] ELSE 0
             new == IF c.k \in DOMAIN after THEN after[c.k] ELSE 0
         IN /\ c.op = "inc" => new = old + 1
            /\ c.op = "dec" => new = old - 1
            /\ \A k \in DOMAIN after : after[k] >= 1
            /\ \A k \in (DOMAIN rc \cup DOMAIN after) \ {c.k} :
                   k \in DOMAIN rc /\ k \in DOMAIN after /\ rc[k] = after[k]
            /\ StepsOfOne(after, Tail(log), final)

\* the log of the call that the step to the next state makes
LogOfStep ==
    LET st == Store(database, counters)
    IN IF last'.op = "put"
       THEN put_content(st, crypto_wrapper, last'.m, FALSE).st.log
       ELSE IF last'.op = "delete"
       THEN delete_content(st, crypto_wrapper, last'.ref, FALSE).log
       ELSE <<>>

NodeCounterStateMachine ==
    /\ []NodeCounterAgree
    /\ [][StepsOfOne(counters, LogOfStep, counters')]_vars

\* a node went from absent to present and back to absent
NodeCounterStateMachineWitness ==
    /\ last.op = "delete" /\ last.err = NoErr
    /\ Len(trail) = 4
    /\ database = base.db /\ counters = base.rc
    /\ length_to_height_fn(Len(last.m)) >= 2

(***************************************************************************)
(* C9.  Children of stored superchunks are alive: between operations       *)
(* every child digest that a stored superchunk lists has a counter of at   *)
(* least 1 and is in the database.                                         *)
(***************************************************************************)
ChildrenAlive ==
    \A p \in Slots :
        LET k == ChildrenOf(p[1])[p[2]]
        IN k \in DOMAIN database /\ k \in DOMAIN counters /\ counters[k] >= 1

\* after a delete, a stored superchunk lists a child that the deleted
\* content listed too
ChildrenAliveWitness ==
    /\ last.op = "delete" /\ last.err = NoErr
    /\ Slots # {}
    /\ \E p \in Slots :
           ChildrenOf(p[1])[p[2]]
               \in DOMAIN Replay(Snapshot(EmptyDict, EmptyDict),
                                 <<[op |-> "put", m |-> last.m]>>).db

(***************************************************************************)
(* C10.  Deterministic handles: a put returns the handle that the put of   *)
(* the same content returns on an empty store; the second of two puts in   *)
(* a row of one content is not new, and the put of a content that has no   *)
(* outstanding handle is new.                                              *)
(***************************************************************************)
SameHandleEverywhere ==
    last.op = "put" =>
        last.ref = put_content(Store(EmptyDict, EmptyDict), crypto_wrapper,
                               last.m, FALSE).ref

SecondPutIsNotNew ==
    (/\ last.op = "put"
     /\ Len(trail) >= 2
     /\ trail[Len(trail) - 1] = trail[Len(trail)])
    => ~last.is_new

FirstPutIsNew ==
    (/\ last.op = "put"
     /\ \A e \in BagToSet(handles) : e.m = last.m => CopiesIn(e, handles) = 1)
    => last.is_new

DeterministicHandles ==
    SameHandleEverywhere /\ SecondPutIsNotNew /\ FirstPutIsNew

(***************************************************************************)
(* The call before the last one.  After a put the trail holds puts only,   *)
(* so the store the put ran on is the base with the earlier puts replayed. *)
(***************************************************************************)
Before == Replay(base, SubSeq(trail, 1, Len(trail) - 1))

\* the nodes that the put of m makes on an empty store
NodesOf(m) ==
    DOMAIN Replay(Snapshot(EmptyDict, EmptyDict), <<[op |-> "put", m |-> m]>>).db

\* the number of bytes of a content reference
SizeOfReference(ref) == DIGEST_SIZE + Len(ref.q)

(***************************************************************************)
(* C11.  Meaning of is_new: a put returns is_new = TRUE exactly if no      *)
(* handle of the content was outstanding when it was called, under every   *)
(* wrapper.                                                                *)
(***************************************************************************)
MeaningOfIsNew ==
    last.op = "put" /\ last.err = NoErr =>
        (last.is_new <=> CopiesIn([ref |-> last.ref, m |-> last.m], handles) = 1)

\* the same under the wrappers that bind is_root into the digest and do
\* not pad leaves
MeaningOfIsNewDistinguishedRoot ==
    crypto_wrapper.dr /\ ~crypto_wrapper.pad => MeaningOfIsNew

(***************************************************************************)
(* C12.  Small content is a single chunk: the put of a content of at most  *)
(* S bytes whose node is not yet stored adds one node, whose value has as  *)
(* many bytes as the content, and one counter of value 1, and changes      *)
(* nothing else; the handle of the empty content has R + 8 bytes and ends  *)
(* in eight zero bytes.                                                    *)
(***************************************************************************)
SmallPut ==
    /\ last.op = "put" /\ last.err = NoErr
    /\ Len(last.m) <= chunk_size
    /\ last.ref.k \notin DOMAIN Before.db

OneNodeOneCounter ==
    /\ database = SetItem(Before.db, last.ref.k, database[last.ref.k])
    /\ counters = SetItem(Before.rc, last.ref.k, 1)
    /\ last.ref.k \notin DOMAIN Before.rc
    /\ last.m = <<>> =>
           SizeOfReference(last.ref) = DIGEST_SIZE + 8 /\ last.ref.q = Zeros(8)

SmallContentSingleChunk ==
    SmallPut =>
        /\ OneNodeOneCounter
        /\ Len(database[last.ref.k].leaf) = Len(last.m)

\* as amended: the value has the bytes of the content, or S bytes under
\* the wrapper that pads leaves
SmallContentSingleChunkPadded ==
    SmallPut =>
        /\ OneNodeOneCounter
        /\ Len(database[last.ref.k].leaf) =
               IF crypto_wrapper.pad THEN chunk_size ELSE Len(last.m)

\* a content shorter than S was put, under the padding wrapper, on a store
\* that holds other nodes
SmallContentSingleChunkWitness ==
    /\ SmallPut
    /\ crypto_wrapper.pad
    /\ Len(last.m) = 1
    /\ Before.db # EmptyDict

(***************************************************************************)
(* C13.  Content longer than S forms a superchunk: the put of a content of *)
(* more than S bytes none of whose nodes is stored adds more than one node *)
(* and more than one counter, among them a leaf and the root, which is a   *)
(* superchunk of height at least 1.                                        *)
(***************************************************************************)
LongPut ==
    /\ last.op = "put" /\ last.err = NoErr
    /\ Len(last.m) > chunk_size
    /\ NodesOf(last.m) \cap DOMAIN Before.db = {}

LongContentFormsSuperchunk ==
    LongPut =>
        /\ Cardinality(DOMAIN database \ DOMAIN Before.db) > 1
        /\ Cardinality(DOMAIN counters \ DOMAIN Before.rc) > 1
        /\ last.ref.k \in DOMAIN database \ DOMAIN Before.db
        /\ last.ref.k.h >= 1
        /\ \E k \in DOMAIN database \ DOMAIN Before.db : k.h = 0

\* a content of height 2 was put on a store that holds another content
LongContentFormsSuperchunkWitness ==
    /\ LongPut
    /\ length_to_height_fn(Len(last.m)) >= 2
    /\ Before.db # EmptyDict

(***************************************************************************)
(* The engine with a caller and a backend that are not trusted: get and    *)
(* delete are called with references that no put returned (forged from     *)
(* digests, of a wrong size, or deleted before), and a stored value is     *)
(* changed in the backend.  Here base is the store before the last call.   *)
(***************************************************************************)
\* a content of height 2, and the content of one of its superchunks
Samples == {<<0, 1, 1>>, <<0, 1, 1, 1, 1>>}

\* the lengths of forged references: one of each height
Lengths == {1, 3, 5}

\* the reference that the put of m returns
HandleOf(m) ==
    put_content(Store(EmptyDict, EmptyDict), crypto_wrapper, m, FALSE).ref

\* references made of the digest of a node and of a length
Forged ==
    {pack_content_reference(k, l) :
         k \in UNION {NodesOf(m) : m \in Samples}, l \in Lengths}

\* references that lack a byte, or have one too many
Missized ==
    UNION {{[k |-> HandleOf(m).k, q |-> Tail(HandleOf(m).q)],
            [k |-> HandleOf(m).k, q |-> Append(HandleOf(m).q, 0)]} :
               m \in Samples}

\* the value that wrap_value stores under the digest k
StoredAs(k) ==
    CipherOf(crypto_wrapper, [leaf |-> k.leaf, kids |-> k.kids], k.h, k.root)

Changed(k) == k \in DOMAIN database /\ database[k] # StoredAs(k)

StoreGenuine == \A k \in DOMAIN database : ~Changed(k)

\* the values that are written over the value of k: the value of a stored
\* superchunk, or the own value with a byte more
ValuesFor(k) ==
    ({database[j] : j \in {d \in DOMAIN database : d.h > 0}}
         \cup {[database[k] EXCEPT !.leaf = Append(@, 1)]})
    \ {database[k]}

\* put_content_and_check_if_new(m)
PutAny(m) ==
    /\ BagCardinality(handles) < MaxHandles
    /\ StoreGenuine
    /\ \E r \in {put_content_and_check_if_new(
                     Store(database, counters), crypto_wrapper, m, FALSE)} :
          /\ database' = r.st.db
          /\ counters' = r.st.rc
          /\ handles' = IF r.st.err = NoErr
                        THEN handles (+) SetToBag({[ref |-> r.ref, m |-> m]})
                        ELSE handles
          /\ last' = [Call("put", m, r.ref) EXCEPT
                        !.is_new = r.is_new, !.err = r.st.err]
    /\ base' = Snapshot(database, counters)
    /\ UNCHANGED <<crypto_wrapper, trail>>

\* a get_content that takes the root it has read out of the database
GetAny_consuming(ref) ==
    /\ \E r \in {get_content(Store(database, counters), crypto_wrapper, ref)} :
          last' = [Call("get", <<>>, ref) EXCEPT !.err = r.err, !.out = r.val]
    /\ database' = IF ref.k \in DOMAIN database
                   THEN DelItem(database, ref.k) ELSE database
    /\ base' = Snapshot(database, counters)
    /\ UNCHANGED <<counters, crypto_wrapper, handles, trail>>

\* get_content(ref) of any reference
GetAny(ref) ==
    /\ \E r \in {get_content(Store(database, counters), crypto_wrapper, ref)} :
          last' = [Call("get", <<>>, ref) EXCEPT !.err = r.err, !.out = r.val]
    /\ base' = Snapshot(database, counters)
    /\ UNCHANGED <<database, counters, crypto_wrapper, handles, trail>>

\* delete_content(ref) of an outstanding reference
DeleteOutstanding(e) ==
    /\ StoreGenuine
    /\ \E st \in {delete_content(
                      Store(database, counters), crypto_wrapper, e.ref, FALSE)} :
          /\ database' = st.db
          /\ counters' = st.rc
          /\ last' = [Call("delete", e.m, e.ref) EXCEPT !.err = st.err]
    /\ handles' = handles (-) SetToBag({e})
    /\ base' = Snapshot(database, counters)
    /\ UNCHANGED <<crypto_wrapper, trail>>

\* delete_content(ref) of a reference of a wrong size, or one whose root
\* has no counter (left)
DeleteAgain(ref) ==
    /\ SizeOfReference(ref) = DIGEST_SIZE + 8 => ref.k \notin DOMAIN counters
    /\ \E st \in {delete_content(
                      Store(database, counters), crypto_wrapper, ref, FALSE)} :
          /\ database' = st.db
          /\ counters' = st.rc
          /\ last' = [Call("delete", <<>>, ref) EXCEPT !.err = st.err]
    /\ base' = Snapshot(database, counters)
    /\ UNCHANGED <<crypto_wrapper, handles, trail>>

\* the backend's value of k is overwritten by v
Tamper(k, v) ==
    /\ StoreGenuine
    /\ database' = SetItem(database, k, v)
    /\ last' = [op |-> "tamper", k |-> k, err |-> NoErr]
    /\ base' = Snapshot(database, counters)
    /\ UNCHANGED <<counters, crypto_wrapper, handles, trail>>

NextUntrusted ==
    \/ \E m \in Samples : PutAny(m)
    \/ \E ref \in {e.ref : e \in BagToSet(handles)} \cup Forged \cup Missized :
           GetAny(ref)
    \/ \E e \in BagToSet(handles) : DeleteOutstanding(e)
    \/ \E ref \in {HandleOf(m) : m \in Samples} \cup Missized : DeleteAgain(ref)
    \/ \E k \in DOMAIN database : \E v \in ValuesFor(k) : Tamper(k, v)

SpecUntrusted == Init /\ [][NextUntrusted]_vars

(***************************************************************************)
(* Claims about references that no put returned and about a changed store. *)
(***************************************************************************)
WrongSized(ref) == SizeOfReference(ref) # DIGEST_SIZE + 8

\* the last call was a get or a delete of a reference of a wrong size
WrongSizedCall == last.op \in {"get", "delete"} /\ WrongSized(last.ref)

\* C14: every outstanding reference has R + 8 bytes, the root digest and then
\* the length of the content as 8 big-endian bytes; unpacking a packed
\* reference gives the digest and the length back; a get or a delete of a
\* reference that has not R + 8 bytes fails with struct.error, whatever the
\* store holds under its digest, and leaves store and counters as they were
HandleCodec ==
    /\ \A e \in BagToSet(handles) :
          /\ SizeOfReference(e.ref) = DIGEST_SIZE + 8
          /\ e.ref.k \in NodesOf(e.m)
          /\ e.ref.q = BigEndian(Len(e.m), 8)
          /\ FromBigEndian(e.ref.q) = Len(e.m)
          /\ unpack_content_reference(e.ref)
                 = [err |-> NoErr, k |-> e.ref.k, l |-> Len(e.m)]
    /\ \A ref \in Forged :
          LET kl == unpack_content_reference(ref)
          IN /\ kl.err = NoErr
             /\ kl.l \in Lengths
             /\ pack_content_reference(kl.k, kl.l) = ref
    /\ \A k \in DOMAIN database : \A l \in Lengths :
          unpack_content_reference(pack_content_reference(k, l))
              = [err |-> NoErr, k |-> k, l |-> l]
    /\ WrongSizedCall =>
          /\ last.err = "struct.error"
          /\ last.out = <<>>
          /\ Now = base

\* a reference with a byte too few or too many was got or deleted while its
\* digest was stored and counted
HandleCodecWitness ==
    /\ WrongSizedCall
    /\ last.ref.k \in DOMAIN database
    /\ last.ref.k \in DOMAIN counters
    /\ handles # EmptyBag

\* the last call was a get of a reference of the right size whose digest
\* the backend does not hold
GetOfAbsentRoot ==
    /\ last.op = "get"
    /\ ~WrongSized(last.ref)
    /\ last.ref.k \notin DOMAIN database

\* C15: a get of a reference whose root digest is not in the backend fails
\* with KeyError and returns nothing, whatever length the reference carries
\* (0 and the other lengths of height 0 included)
GetOfMissingRoot ==
    /\ GetOfAbsentRoot => last.err = "KeyError" /\ last.out = <<>>
    /\ \A k \in UNION {NodesOf(m) : m \in Samples} \ DOMAIN database :
          \A l \in 0..5 :
              get_content(Store(database, counters), crypto_wrapper,
                          pack_content_reference(k, l))
                  = [err |-> "KeyError", val |-> <<>>]

\* a reference of height 0 was got while the backend holds other nodes, but
\* not the one of this reference
GetOfMissingRootWitness ==
    /\ GetOfAbsentRoot
    /\ length_to_height_fn(unpack_content_reference(last.ref).l) = 0
    /\ last.err = "KeyError"
    /\ database # EmptyDict

RECURSIVE TreeOf(_)
\* the digests of the chunk tree whose root has the digest k
TreeOf(k) == {k} \cup UNION {TreeOf(k.kids[i]) : i \in DOMAIN k.kids}

\* a node of the chunk tree of the reference has a changed value
ChangedUnder(ref) == \E k \in TreeOf(ref.k) : Changed(k)

\* the last call was a get of an outstanding reference
GetOfOutstanding ==
    last.op = "get" /\ last.ref \in {e.ref : e \in BagToSet(handles)}

\* C16: while the stored value of a node of the chunk tree of an outstanding
\* reference is changed, a get of this reference fails with the error of
\* the wrapper and returns no byte at all
TamperDetection ==
    /\ \A e \in BagToSet(handles) :
          ChangedUnder(e.ref) =>
              get_content(Store(database, counters), crypto_wrapper, e.ref)
                  = [err |-> WrapperError(crypto_wrapper), val |-> <<>>]
    /\ GetOfOutstanding /\ ChangedUnder(last.ref) =>
          /\ last.err = WrapperError(crypto_wrapper)
          /\ last.out = <<>>

\* a content of height 2 was got after the value of a node below its root
\* was changed, and the nodes read before this one are as they were stored
TamperDetectionWitness ==
    /\ GetOfOutstanding
    /\ length_to_height_fn(unpack_content_reference(last.ref).l) = 2
    /\ ~Changed(last.ref.k)
    /\ \E k \in TreeOf(last.ref.k) : Changed(k) /\ k.h = 0
    /\ last.err = WrapperError(crypto_wrapper)

\* the last call was a get of a reference made of the digest of a node that
\* is stored as a non-root node
GetOfNonRoot ==
    /\ last.op = "get"
    /\ ~WrongSized(last.ref)
    /\ last.ref.k \in DOMAIN database
    /\ ~last.ref.k.root

\* the value under k is not its own but the value of a stored superchunk
\* that is not a root
NonRootCopiedUnder(k) ==
    /\ Changed(k)
    /\ \E j \in DOMAIN database : j.h > 0 /\ ~j.root /\ database[k] = StoredAs(j)

\* C17: in the chunk tree of an outstanding reference the root, and no other
\* node, has the height of the tree and, under a distinguished-root
\* wrapper, a digest made with is_root; under a distinguished-root wrapper a
\* get fails with AuthenticityError for every reference made of the digest
\* of a node stored as non-root, and for every outstanding reference under
\* whose root digest the value of a non-root superchunk was written
DistinguishedRootBinding ==
    /\ \A e \in BagToSet(handles) : \A k \in TreeOf(e.ref.k) :
          /\ k.h = length_to_height_fn(Len(e.m)) <=> k = e.ref.k
          /\ k.root <=> crypto_wrapper.dr /\ k = e.ref.k
    /\ crypto_wrapper.dr =>
          /\ \A k \in {j \in DOMAIN database : ~j.root} : \A l \in 0..5 :
                get_content(Store(database, counters), crypto_wrapper,
                            pack_content_reference(k, l))
                    = [err |-> "AuthenticityError", val |-> <<>>]
          /\ GetOfNonRoot => last.err = "AuthenticityError" /\ last.out = <<>>
          /\ \A e \in BagToSet(handles) :
                NonRootCopiedUnder(e.ref.k) =>
                    get_content(Store(database, counters), crypto_wrapper, e.ref)
                        = [err |-> "AuthenticityError", val |-> <<>>]
          /\ GetOfOutstanding /\ NonRootCopiedUnder(last.ref.k) =>
                last.err = "AuthenticityError" /\ last.out = <<>>

\* under a distinguished-root wrapper the get of an outstanding reference
\* failed: its root holds the value of a non-root superchunk that has the
\* children of the root
DistinguishedRootBindingWitness ==
    /\ crypto_wrapper.dr
    /\ GetOfOutstanding
    /\ NonRootCopiedUnder(last.ref.k)
    /\ \E j \in DOMAIN database :
          /\ ~j.root
          /\ j.kids = last.ref.k.kids
          /\ database[last.ref.k] = StoredAs(j)
    /\ last.err = "AuthenticityError"

\* the last call was a delete of a reference of the right size whose root
\* had no counter
DeleteOfUncounted ==
    /\ last.op = "delete"
    /\ ~WrongSized(last.ref)
    /\ last.ref.k \notin DOMAIN base.rc

\* C18: a delete of a reference whose root has no counter (left) fails with
\* the KeyError of dec and leaves the backend and the counters as they were
DoubleDeleteFails ==
    /\ DeleteOfUncounted => last.err = "KeyError" /\ Now = base
    /\ \A m \in Samples :
          HandleOf(m).k \notin DOMAIN counters =>
              delete_content(Store(database, counters), crypto_wrapper,
                             HandleOf(m), FALSE)
                  = Raise(Store(database, counters), "KeyError")

\* a reference that is not outstanding was deleted while the backend holds
\* nodes of its chunk tree for an outstanding reference
DoubleDeleteFailsWitness ==
    /\ DeleteOfUncounted
    /\ last.err = "KeyError"
    /\ handles # EmptyBag
    /\ last.ref \notin {e.ref : e \in BagToSet(handles)}
    /\ \E k \in TreeOf(last.ref.k) : k \in DOMAIN database

(***************************************************************************)
(* The constructor.  SecCSLite(chunk_size, database, crypto_wrapper,       *)
(* **kwargs) is called on a backend that may hold contents; R is the       *)
(* DIGEST_SIZE of the crypto wrapper, and kwargs maps the keywords that    *)
(* the call passes to None or to a function.                               *)
(***************************************************************************)
MaxChunkSize == 6
MaxDigestSize == 3

Keywords == {"length_to_height_fn", "height_to_chunk_size_fn"}

Kwargs == UNION {[D -> {"None", "function"}] : D \in SUBSET Keywords}

\* kwargs.get(key, None), as a truth value: None is false, a function true
Get(kwargs, key) == key \in DOMAIN kwargs /\ kwargs[key] = "function"

\* SecCSLite.__init__: the error it raises, or the two schedules it keeps
__init__(S, R, kwargs) ==
    IF S < 2 * R /\ "height_to_chunk_size_fn" \notin DOMAIN kwargs
    THEN [err |-> "UnsupportedChunkSizeError",
          length_to_height_fn |-> "unset", height_to_chunk_size_fn |-> "unset"]
    ELSE [err |-> NoErr,
          length_to_height_fn |->
              IF Get(kwargs, "length_to_height_fn") THEN "custom" ELSE "default",
          height_to_chunk_size_fn |->
              IF Get(kwargs, "height_to_chunk_size_fn")
              THEN "custom" ELSE "default"]

\* a constructor call on the backend as it is
New(S, R, kwargs) ==
    /\ \E r \in {__init__(S, R, kwargs)} :
          last' = [op |-> "__init__", chunk_size |-> S, R |-> R,
                   kwargs |-> kwargs, err |-> r.err,
                   length_to_height_fn |-> r.length_to_height_fn,
                   height_to_chunk_size_fn |-> r.height_to_chunk_size_fn]
    /\ base' = Snapshot(database, counters)
    /\ UNCHANGED <<database, counters, crypto_wrapper, handles, trail>>

\* the backend is empty, or holds a sample
InitNew ==
    /\ crypto_wrapper \in Wrappers
    /\ \E r \in {Store(EmptyDict, EmptyDict)}
              \cup {put_content(Store(EmptyDict, EmptyDict), crypto_wrapper,
                                m, FALSE).st : m \in Samples} :
          database = r.db /\ counters = r.rc
    /\ handles = EmptyBag
    /\ last = Call("new", <<>>, NoRef)
    /\ base = Snapshot(EmptyDict, EmptyDict)
    /\ trail = <<>>

NextNew ==
    \E S \in 0..MaxChunkSize : \E R \in 1..MaxDigestSize :
        \E kwargs \in Kwargs : New(S, R, kwargs)

SpecNew == InitNew /\ [][NextNew]_vars

Constructed == last.op = "__init__"

\* C19: the constructor raises UnsupportedChunkSizeError if and only if
\* S < 2R and no custom height-to-chunk-size function is supplied; when it
\* raises, the backend and the counters are as they were
ConstructorCheck ==
    Constructed =>
        /\ last.err = "UnsupportedChunkSizeError"
               <=> /\ last.chunk_size < 2 * last.R
                   /\ ~Get(last.kwargs, "height_to_chunk_size_fn")
        /\ last.err # NoErr => Now = base

\* the same for the calls that pass no keyword with the value None
ConstructorCheckWithoutNone ==
    Constructed /\ (\A key \in DOMAIN last.kwargs : last.kwargs[key] # "None") =>
        /\ last.err = "UnsupportedChunkSizeError"
               <=> /\ last.chunk_size < 2 * last.R
                   /\ ~Get(last.kwargs, "height_to_chunk_size_fn")
        /\ last.err # NoErr => Now = base

\* with S < 2R and height_to_chunk_size_fn = None the constructor returns an
\* engine that has the default chunk sizes
ConstructorCheckWaivedByNone ==
    /\ Constructed
    /\ last.chunk_size < 2 * last.R
    /\ last.err = NoErr
    /\ last.height_to_chunk_size_fn = "default"

(***************************************************************************)
(* The reference counter on its own: rc = DatabaseReferenceCounter(dict()) *)
(* and calls of rc.inc(key) and rc.dec(key); counters is its dict, and     *)
(* handles tallies the calls: a copy of key for every inc, less one for    *)
(* every dec that returned.                                                *)
(***************************************************************************)
MaxCount == 3

\* the keys that are counted
Keys == {<<0>>, <<1>>, <<0, 1>>}

\* rc.inc(key)
Inc(key) ==
    /\ CountOf(key) < MaxCount
    /\ \E r \in {inc(Store(database, counters), key)} :
          /\ counters' = r.st.rc
          /\ last' = [op |-> "inc", key |-> key, count |-> r.count,
                      err |-> r.st.err]
    /\ handles' = handles (+) SetToBag({key})
    /\ base' = Snapshot(database, counters)
    /\ UNCHANGED <<database, crypto_wrapper, trail>>

\* rc.dec(key)
Dec(key) ==
    /\ \E r \in {dec(Store(database, counters), key)} :
          /\ counters' = r.st.rc
          /\ last' = [op |-> "dec", key |-> key, count |-> r.count,
                      err |-> r.st.err]
          /\ handles' = IF r.st.err = NoErr
                        THEN handles (-) SetToBag({key})
                        ELSE handles
    /\ base' = Snapshot(database, counters)
    /\ UNCHANGED <<database, crypto_wrapper, trail>>

NextCounter ==
    \/ \E key \in Keys : Inc(key)
    \/ \E key \in Keys : Dec(key)

SpecCounter == Init /\ [][NextCounter]_vars

\* the count of key in the dict rc, 0 for a key that has no counter
CountIn(rc, key) == IF key \in DOMAIN rc THEN rc[key] ELSE 0

\* the counters of the keys other than key are as before the last call
OthersUnchanged(key) ==
    \A k \in (DOMAIN counters \cup DOMAIN base.rc) \ {key} :
        /\ k \in DOMAIN counters
        /\ k \in DOMAIN base.rc
        /\ counters[k] = base.rc[k]

\* C20: inc(k) on an absent counter creates it with the value 1 and returns
\* 1, on a counter with the value v it stores and returns v + 1, and the
\* counters of all other keys are unchanged
IncCounts ==
    last.op = "inc" =>
        /\ last.err = NoErr
        /\ last.key \notin DOMAIN base.rc => last.count = 1
        /\ last.key \in DOMAIN base.rc => last.count = base.rc[last.key] + 1
        /\ last.key \in DOMAIN counters
        /\ counters[last.key] = last.count
        /\ OthersUnchanged(last.key)

\* a counter with a value of 2 was incremented while other keys have
\* counters, and an absent one was not
IncCountsWitness ==
    /\ last.op = "inc"
    /\ CountIn(base.rc, last.key) = 2
    /\ \E k \in DOMAIN counters : k # last.key
    /\ \E k \in Keys : k \notin DOMAIN counters

\* the last call was a dec of a key that had a counter
DecOfPresent == last.op = "dec" /\ last.key \in DOMAIN base.rc

\* C21: dec(k) of a counter with the value 1 deletes it and returns 0, of a
\* counter with a value v > 1 stores and returns v - 1, and changes no other
\* key; every stored counter is at least 1 and is the number of incs less
\* the number of decs of its key
DecCounts ==
    /\ DecOfPresent =>
          /\ last.err = NoErr
          /\ last.count = base.rc[last.key] - 1
          /\ base.rc[last.key] = 1 =>
                 last.count = 0 /\ last.key \notin DOMAIN counters
          /\ base.rc[last.key] > 1 =>
                 last.key \in DOMAIN counters /\ counters[last.key] = last.count
          /\ OthersUnchanged(last.key)
    /\ \A k \in DOMAIN counters : counters[k] >= 1
    /\ \A k \in Keys : CountIn(counters, k) = CopiesIn(k, handles)

\* a counter with the value 1 was deleted by dec while another key has a
\* counter of 2 or more
DecCountsWitness ==
    /\ DecOfPresent
    /\ base.rc[last.key] = 1
    /\ last.count = 0
    /\ \E k \in DOMAIN counters : counters[k] >= 2

(***************************************************************************)
(* The key-suffix counter on the backend of the nodes:                     *)
(* rc = KeySuffixDatabaseReferenceCounter(database, suffix), the default   *)
(* of the engine with the suffix "r".  database is the one dict, written   *)
(* by rc.inc and rc.dec and, under the keys of nodes, by the engine; trail *)
(* holds the constructor call, and handles tallies the incs and decs.      *)
(***************************************************************************)
\* "r", and a suffix of two bytes
Suffixes == {<<114>>, <<0, 1>>}

\* the keys of nodes: digests, of DIGEST_SIZE bytes
NodeKeys == [1..DIGEST_SIZE -> Bytes]

suffix == trail[1].suffix

InitSuffix ==
    /\ database = EmptyDict
    /\ counters = EmptyDict
    /\ crypto_wrapper \in Wrappers
    /\ handles = EmptyBag
    /\ last = Call("new", <<>>, NoRef)
    /\ base = Snapshot(EmptyDict, EmptyDict)
    /\ \E sfx \in Suffixes :
          trail = <<[op |-> "KeySuffixDatabaseReferenceCounter",
                     suffix |-> sfx]>>

\* rc.inc(key)
SuffixInc(key) ==
    /\ CopiesIn(key, handles) < MaxCount
    /\ \E r \in {KeySuffixDatabaseReferenceCounter_inc(
                     Store(database, database), key, suffix)} :
          /\ database' = r.st.rc
          /\ last' = [op |-> "inc", key |-> key, count |-> r.count,
                      err |-> r.st.err]
    /\ handles' = handles (+) SetToBag({key})
    /\ base' = Snapshot(database, counters)
    /\ UNCHANGED <<counters, crypto_wrapper, trail>>

\* rc.dec(key)
SuffixDec(key) ==
    /\ \E r \in {KeySuffixDatabaseReferenceCounter_dec(
                     Store(database, database), key, suffix)} :
          /\ database' = r.st.rc
          /\ last' = [op |-> "dec", key |-> key, count |-> r.count,
                      err |-> r.st.err]
          /\ handles' = IF r.st.err = NoErr
                        THEN handles (-) SetToBag({key})
                        ELSE handles
    /\ base' = Snapshot(database, counters)
    /\ UNCHANGED <<counters, crypto_wrapper, trail>>

\* self._database[k] = v of _store_node
SetNode(key) ==
    /\ database' = SetItem(database, key, <<1>>)
    /\ last' = [op |-> "set", key |-> key, count |-> 0, err |-> NoErr]
    /\ base' = Snapshot(database, counters)
    /\ UNCHANGED <<counters, crypto_wrapper, handles, trail>>

\* del self._database[k] of _delete_chunk
DelNode(key) ==
    /\ key \in DOMAIN database
    /\ database' = DelItem(database, key)
    /\ last' = [op |-> "del", key |-> key, count |-> 0, err |-> NoErr]
    /\ base' = Snapshot(database, counters)
    /\ UNCHANGED <<counters, crypto_wrapper, handles, trail>>

NextSuffix ==
    \/ \E key \in NodeKeys : SuffixInc(key)
    \/ \E key \in NodeKeys : SuffixDec(key)
    \/ \E key \in NodeKeys : SetNode(key)
    \/ \E key \in NodeKeys : DelNode(key)

SpecSuffix == InitSuffix /\ [][NextSuffix]_vars

\* the entries under the keys ks are as before the last call
SameUnder(ks) ==
    \A x \in ks :
        /\ x \in DOMAIN database <=> x \in DOMAIN base.db
        /\ x \in DOMAIN database => database[x] = base.db[x]

\* C22: the key-suffix counter keeps the count of k under k || suffix, the
\* number of incs less the number of decs of k, and an inc or a dec leaves
\* every entry under a key of DIGEST_SIZE bytes as it was; a write of a node
\* leaves every counter as it was; every key of the backend has
\* DIGEST_SIZE bytes or, with the suffix "r", DIGEST_SIZE + 1 bytes, and no
\* key of a counter is the key of a node
CounterKeySpace ==
    /\ \A k \in NodeKeys :
          /\ CountIn(database, k \o suffix) = CopiesIn(k, handles)
          /\ k \o suffix \notin NodeKeys
    /\ last.op \in {"inc", "dec"} =>
          /\ SameUnder(NodeKeys)
          /\ SameUnder({k \o suffix : k \in NodeKeys \ {last.key}})
    /\ last.op \in {"set", "del"} =>
          SameUnder({k \o suffix : k \in NodeKeys})
    /\ \A x \in DOMAIN database :
          \/ Len(x) = DIGEST_SIZE /\ x \in NodeKeys
          \/ Len(x) = DIGEST_SIZE + Len(suffix)
                 /\ x \in {k \o suffix : k \in NodeKeys}
    /\ suffix = <<114>> =>
          \A x \in DOMAIN database : Len(x) \in {DIGEST_SIZE, DIGEST_SIZE + 1}

\* with the suffix "r" the counter of a key was decremented to 0 while the
\* backend holds a node under this key and the counter of another key
CounterKeySpaceWitness ==
    /\ suffix = <<114>>
    /\ last.op = "dec"
    /\ last.err = NoErr
    /\ last.count = 0
    /\ last.key \in DOMAIN database
    /\ \E k \in NodeKeys \ {last.key} : k \o suffix \in DOMAIN database

(***************************************************************************)
(* The two default schedules of an engine SecCSLite(S, database, wrapper)  *)
(* with R = wrapper.DIGEST_SIZE and S >= 2R: the height of the chunk tree  *)
(* of a content length, and the chunk size of a level.                     *)
(***************************************************************************)
MaxLength == 700
MaxLevel == 4

RECURSIVE LeastLevel(_, _, _, _)
\* the least L' >= L with size <= S * (S / R) ** L'
LeastLevel(size, S, R, L) ==
    IF size * Pow(R, L) <= Pow(S, L + 1) THEN L
    ELSE LeastLevel(size, S, R, L + 1)

\* math.log(size * 1.0 / S) / math.log(S * 1.0 / R) is a quotient of two
\* doubles.  Where size = S * (S / R) ** L it should be the integer L; these
\* are the <<S, R, size>> with S <= 8 and size < 5000 where the quotient of
\* the doubles is above L (3.0000000000000004), so that math.ceil gives L + 1
QuotientAbove == {<<5, 1, 625>>, <<6, 1, 1296>>}

\* self._content_length_to_level, the default length_to_height_fn:
\* int(max(math.ceil(math.log(size * 1.0 / S) / math.log(S * 1.0 / R)), 0))
\* if size != 0 else 0
_content_length_to_level(size, S, R) ==
    IF size = 0 THEN 0
    ELSE LeastLevel(size, S, R, 0)
         + (IF <<S, R, size>> \in QuotientAbove THEN 1 ELSE 0)

\* a chunk size schedule with the exponent of R one too high
_LevelToChunkSizeDict_shifted(S, R, L) ==
    Pow(S, L + 1) \div Pow(R, L + 1)

\* self._level_to_chunksize[L], the default height_to_chunk_size_fn:
\* int(self._target_chunksize ** (L + 1) / self._R ** L)
_LevelToChunkSizeDict(S, R, L) ==
    Pow(S, L + 1) \div Pow(R, L)

\* an engine is constructed with a chunk size and a digest size that the
\* constructor accepts
InitSchedule ==
    /\ database = EmptyDict
    /\ counters = EmptyDict
    /\ crypto_wrapper = SHA_256
    /\ handles = EmptyBag
    /\ \E S \in 0..MaxChunkSize : \E R \in 1..MaxDigestSize :
          /\ __init__(S, R, EmptyDict).err = NoErr
          /\ last = [op |-> "__init__", S |-> S, R |-> R, size |-> 0, L |-> 0,
                     out |-> 0]
    /\ base = Snapshot(EmptyDict, EmptyDict)
    /\ trail = <<>>

\* self._content_length_to_level(size), for the lengths in order
LevelOf(size) ==
    /\ size <= MaxLength
    /\ size = IF last.op = "__init__" THEN 0 ELSE last.size + 1
    /\ last' = [last EXCEPT
                  !.op = "level", !.size = size,
                  !.out = _content_length_to_level(size, last.S, last.R)]
    /\ UNCHANGED <<database, counters, crypto_wrapper, handles, base, trail>>

\* self._level_to_chunksize[L]
ChunkSizeOf(L) ==
    /\ last' = [last EXCEPT
                  !.op = "chunksize", !.L = L,
                  !.out = _LevelToChunkSizeDict(last.S, last.R, L)]
    /\ UNCHANGED <<database, counters, crypto_wrapper, handles, base, trail>>

NextSchedule ==
    \/ \E size \in 0..MaxLength : LevelOf(size)
    \/ \E L \in 0..MaxLevel : ChunkSizeOf(L)

SpecSchedule == InitSchedule /\ [][NextSchedule]_vars

\* the last call asked for the height of a length
LevelAsked == last.op = "level"

\* L is the least integer >= 1 with size <= S * (S / R) ** L
LeastAbove(L, size, S, R) ==
    /\ L >= 1
    /\ size * Pow(R, L) <= Pow(S, L + 1)
    /\ size * Pow(R, L - 1) > Pow(S, L)

\* C23: the height of the length 0 and of the lengths 1..S is 0; the height
\* of a length l > S is the least L >= 1 with l <= S * (S / R) ** L, also
\* where l = S * (S / R) ** L; the height does not decrease with the length
DefaultHeightSchedule ==
    LevelAsked =>
        /\ last.size <= last.S => last.out = 0
        /\ last.size > last.S =>
               LeastAbove(last.out, last.size, last.S, last.R)
        /\ last.size > 0 =>
               last.out >= _content_length_to_level(last.size - 1, last.S,
                                                    last.R)

\* the same without the claim on the lengths l = S * (S / R) ** L, L >= 1
DefaultHeightScheduleOffThresholds ==
    LevelAsked =>
        /\ last.size <= last.S => last.out = 0
        /\ /\ last.size > last.S
           /\ \A L \in 1..MaxLevel :
                  last.size * Pow(last.R, L) # Pow(last.S, L + 1)
           => LeastAbove(last.out, last.size, last.S, last.R)
        /\ last.size > 0 =>
               last.out >= _content_length_to_level(last.size - 1, last.S,
                                                    last.R)

\* at the length S * (S / R) ** 3 the height is 4
DefaultHeightScheduleAboveAtThreshold ==
    /\ LevelAsked
    /\ last.size * Pow(last.R, 3) = Pow(last.S, 4)
    /\ last.out = 4

\* the last call asked for the chunk size of a level
ChunkSizeAsked == last.op = "chunksize"

\* C24: the chunk size of the level L is S ** (L + 1) / R ** L rounded down,
\* it is S for the level 0, and, with S >= 2R, above the chunk size of the
\* level L - 1
DefaultChunkSizeSchedule ==
    ChunkSizeAsked =>
        /\ last.out * Pow(last.R, last.L) <= Pow(last.S, last.L + 1)
        /\ (last.out + 1) * Pow(last.R, last.L) > Pow(last.S, last.L + 1)
        /\ last.L = 0 => last.out = last.S
        /\ last.L > 0 /\ last.S >= 2 * last.R =>
               last.out > _LevelToChunkSizeDict(last.S, last.R, last.L - 1)

\* the chunk size of the level 3 was asked for where R does not divide S
DefaultChunkSizeScheduleWitness ==
    /\ ChunkSizeAsked
    /\ last.L = 3
    /\ last.S % last.R # 0
    /\ last.out * Pow(last.R, last.L) < Pow(last.S, last.L + 1)

(***************************************************************************)
(* The engine called with and without ignore_rc.  last records the flag of *)
(* the call, base is the store before the call.                            *)
(***************************************************************************)
\* a leaf, and the samples
Mixed == {<<1>>} \cup Samples

CallRc(op, m, ref, ignore_rc) == [ignore_rc |-> ignore_rc] @@ Call(op, m, ref)

\* put_content_and_check_if_new(m, ignore_rc)
PutWith(m, ignore_rc) ==
    /\ BagCardinality(handles) < MaxHandles
    /\ \A d \in DOMAIN counters : counters[d] < MaxCount
    /\ \E r \in {put_content_and_check_if_new(
                     Store(database, counters), crypto_wrapper, m, ignore_rc)} :
          /\ database' = r.st.db
          /\ counters' = r.st.rc
          /\ handles' = IF r.st.err = NoErr
                        THEN handles (+) SetToBag({[ref |-> r.ref, m |-> m]})
                        ELSE handles
          /\ last' = [CallRc("put", m, r.ref, ignore_rc) EXCEPT
                        !.is_new = r.is_new, !.err = r.st.err]
    /\ base' = Snapshot(database, counters)
    /\ UNCHANGED <<crypto_wrapper, trail>>

\* delete_content(ref, ignore_rc) of an outstanding reference
DeleteWith(e, ignore_rc) ==
    /\ \E st \in {delete_content(Store(database, counters), crypto_wrapper,
                                 e.ref, ignore_rc)} :
          /\ database' = st.db
          /\ counters' = st.rc
          /\ last' = [CallRc("delete", e.m, e.ref, ignore_rc) EXCEPT
                        !.err = st.err]
    /\ handles' = handles (-) SetToBag({e})
    /\ base' = Snapshot(database, counters)
    /\ UNCHANGED <<crypto_wrapper, trail>>

NextIgnoreRc ==
    \/ \E m \in Mixed : \E ignore_rc \in BOOLEAN : PutWith(m, ignore_rc)
    \/ \E e \in BagToSet(handles) : \E ignore_rc \in BOOLEAN :
           DeleteWith(e, ignore_rc)

SpecIgnoreRc == Init /\ [][NextIgnoreRc]_vars

\* the last call had ignore_rc = True and returned
IgnoredRc(op) == last.op = op /\ last.ignore_rc /\ last.err = NoErr

\* the nodes that the last call deleted
Deleted == DOMAIN base.db \ DOMAIN database

\* the number of child slots of the deleted nodes that hold d
DeletedSlotsHolding(d) ==
    Cardinality({p \in UNION {{<<j, i>> : i \in DOMAIN base.db[j].kids} :
                                  j \in Deleted} :
                     base.db[p[1]].kids[p[2]] = d})

\* the put of m on the store before the last call, with ignore_rc = False
Counted == put_content(Store(base.db, base.rc), crypto_wrapper, last.m, FALSE)

\* C25: a put with ignore_rc = True writes the nodes and the counters that
\* the put with ignore_rc = False writes, but for the counter of the root,
\* which it leaves as it was; a delete with ignore_rc = True leaves the
\* counter of the root as it was and deletes the root node whatever this
\* counter is, takes from the counter of every other digest one for each
\* child slot of a deleted node that holds it, and deletes the nodes whose
\* counter it brought to 0, and no other
IgnoreRcSemantics ==
    /\ IgnoredRc("put") =>
          /\ database = Counted.st.db
          /\ last.ref = Counted.ref
          /\ CountOf(last.ref.k) = CountIn(base.rc, last.ref.k)
          /\ CountIn(Counted.st.rc, last.ref.k) = CountOf(last.ref.k) + 1
          /\ \A d \in (DOMAIN counters \cup DOMAIN Counted.st.rc)
                        \ {last.ref.k} :
                CountOf(d) = CountIn(Counted.st.rc, d)
    /\ IgnoredRc("delete") =>
          /\ last.ref.k \in Deleted
          /\ CountOf(last.ref.k) = CountIn(base.rc, last.ref.k)
          /\ \A d \in (DOMAIN counters \cup DOMAIN base.rc) \ {last.ref.k} :
                CountOf(d) = CountIn(base.rc, d) - DeletedSlotsHolding(d)
          /\ \A d \in Deleted \ {last.ref.k} :
                CountOf(d) = 0 /\ DeletedSlotsHolding(d) > 0
          /\ \A d \in DOMAIN database :
                DeletedSlotsHolding(d) > 0 => CountOf(d) >= 1

\* a content of height 2 was deleted with ignore_rc = True while its root
\* had a counter; children were deleted and a child was kept
IgnoreRcSemanticsWitness ==
    /\ IgnoredRc("delete")
    /\ last.ref.k.h = 2
    /\ CountOf(last.ref.k) >= 1
    /\ Cardinality(Deleted) > 1
    /\ \E d \in DOMAIN database : DeletedSlotsHolding(d) > 0

(***************************************************************************)
(* Claims about the dedup probe of _store_node.                            *)
(***************************************************************************)
\* the arguments v that _store_node can be given for the digest k: the list
\* of children, or the leaf and, for the wrapper that pads, the shorter
\* leaves (those that wrap to k are selected where this is used)
ArgumentsOf(k) ==
    IF k.h > 0 THEN {ListValue(k.kids)}
    ELSE {LeafValue(SubSeq(k.leaf, 1, n)) : n \in 0..Len(k.leaf)}

\* the last call was a put of a content whose root node was stored
PutOfStoredRoot ==
    /\ last.op = "put" /\ last.err = NoErr
    /\ last.ref.k \in DOMAIN Before.db

\* C26: _store_node of a node whose digest is stored and verifies returns
\* (k, False) and leaves the backend and every counter as they are; the put
\* of a content whose root node is stored writes no node and changes no
\* counter but the one of the root, which it increases by 1
DedupFastPath ==
    /\ \A k \in DOMAIN database : \A v \in ArgumentsOf(k) :
          \A root_h \in {k.h, k.h + 1} :
              wrap_value(crypto_wrapper, v, k.h, k.h = root_h).digest = k =>
                  _store_node(Store(database, counters), crypto_wrapper,
                              v, k.h, root_h)
                      = [st |-> Store(database, counters), k |-> k,
                         is_new |-> FALSE]
    /\ PutOfStoredRoot =>
          /\ ~last.is_new
          /\ database = Before.db
          /\ counters = SetItem(Before.rc, last.ref.k,
                                CountIn(Before.rc, last.ref.k) + 1)

\* a content of height 2 was put while its root node was stored and counted
DedupFastPathWitness ==
    /\ PutOfStoredRoot
    /\ last.ref.k.h = 2
    /\ CountIn(Before.rc, last.ref.k) >= 1
    /\ counters[last.ref.k] = CountIn(Before.rc, last.ref.k) + 1

\* put_content_and_check_if_new(m) on a backend with a changed value
PutOnChanged(m) ==
    /\ BagCardinality(handles) < MaxHandles
    /\ ~StoreGenuine
    /\ \E r \in {put_content_and_check_if_new(
                     Store(database, counters), crypto_wrapper, m, FALSE)} :
          /\ database' = r.st.db
          /\ counters' = r.st.rc
          /\ handles' = IF r.st.err = NoErr
                        THEN handles (+) SetToBag({[ref |-> r.ref, m |-> m]})
                        ELSE handles
          /\ last' = [Call("put", m, r.ref) EXCEPT
                        !.is_new = r.is_new, !.err = r.st.err]
    /\ base' = Snapshot(database, counters)
    /\ UNCHANGED <<crypto_wrapper, trail>>

NextProbe ==
    \/ \E m \in Mixed : PutAny(m)
    \/ \E k \in DOMAIN database : \E v \in ValuesFor(k) : Tamper(k, v)
    \/ \E m \in Mixed : PutOnChanged(m)

SpecProbe == Init /\ [][NextProbe]_vars

\* the nodes of the content of the last put whose value was changed when
\* the put was called
ProbedChanged ==
    {k \in NodesOf(last.m) \cap DOMAIN base.db : base.db[k] # StoredAs(k)}

\* the last call was a put of a content one of whose nodes had a changed
\* value in the backend
PutOverChanged == last.op = "put" /\ ProbedChanged # {}

\* C27: a put of a content one of whose nodes is in the backend with a value
\* that does not verify returns; it has overwritten this value with the
\* wrapped node, and is_new is True when the node is the root
ProbeOverwritesCorrupted ==
    PutOverChanged =>
        /\ last.err = NoErr
        /\ \A k \in ProbedChanged : database[k] = StoredAs(k)
        /\ last.ref.k \in ProbedChanged => last.is_new

\* what the engine does: the put fails with the error of the wrapper
ProbeRaisesOnCorrupted ==
    PutOverChanged => last.err = WrapperError(crypto_wrapper)

\* the put of a content failed with the error of the wrapper: its root is
\* in the backend with a changed value
ProbeRaisesOnCorruptedWitness ==
    /\ PutOverChanged
    /\ last.ref.k \in ProbedChanged
    /\ last.err = WrapperError(crypto_wrapper)
    /\ Changed(last.ref.k)

(***************************************************************************)
(* Claims about the retrieval of padded leaves.                            *)
(***************************************************************************)
\* under the leaf-padding wrapper a content shorter than S was put or got
ShortUnderPadding ==
    /\ crypto_wrapper.pad
    /\ last.op \in {"put", "get"} /\ last.err = NoErr
    /\ Len(last.m) < chunk_size

\* C28: under the leaf-padding wrapper the get of the reference of a content
\* shorter than S returns the content without the padding
LeafLengthOnRetrieval ==
    ShortUnderPadding =>
        /\ get_content(Store(database, counters), crypto_wrapper, last.ref)
               = [err |-> NoErr, val |-> last.m]
        /\ last.op = "get" => last.out = last.m

\* what the engine returns: the content with the padding, S bytes
LeafReturnedPadded ==
    ShortUnderPadding =>
        get_content(Store(database, counters), crypto_wrapper, last.ref)
            = [err |-> NoErr,
               val |-> last.m \o Zeros(chunk_size - Len(last.m))]

\* a content of one byte was got under the leaf-padding wrapper, and S
\* bytes were returned
LeafReturnedPaddedWitness ==
    /\ ShortUnderPadding
    /\ last.op = "get"
    /\ Len(last.m) = 1
    /\ Len(last.out) = chunk_size


(***************************************************************************)
(* Calls taken one mutation at a time.  A put_content or a delete_content  *)
(* changes the backend and the counters by the statements                  *)
(* self._database[k] = ..., del self._database[k], inc(k) and dec(k), in   *)
(* the order in which the call reaches them.  trail holds the mutations    *)
(* the running call has still to make, base the store it ends in.  A call  *)
(* stops when it is interrupted between two mutations, or when it raises.  *)
(***************************************************************************)
\* n counts the mutations that the call has made
CallAt(pc, op, m, ref) == [pc |-> pc, n |-> 0] @@ Call(op, m, ref)

\* the store after the mutation c of a call that ends in the store snap
Mutate(db, rc, c, snap) ==
    IF c.op = "inc" THEN Snapshot(db, inc(Store(db, rc), c.k).st.rc)
    ELSE IF c.op = "dec" THEN Snapshot(db, dec(Store(db, rc), c.k).st.rc)
    ELSE IF c.op = "write" THEN Snapshot(SetItem(db, c.k, snap.db[c.k]), rc)
    ELSE Snapshot(DelItem(db, c.k), rc)

InitSteps ==
    /\ database = EmptyDict
    /\ counters = EmptyDict
    /\ crypto_wrapper \in Wrappers
    /\ handles = EmptyBag
    /\ last = CallAt("done", "new", <<>>, NoRef)
    /\ base = Snapshot(EmptyDict, EmptyDict)
    /\ trail = <<>>

\* put_content_and_check_if_new(m) is called
BeginPut(m) ==
    /\ last.pc = "done"
    /\ BagCardinality(handles) < MaxHandles
    /\ \E r \in {put_content_and_check_if_new(
                     Store(database, counters), crypto_wrapper, m, FALSE)} :
          /\ trail' = r.st.log
          /\ base' = Snapshot(r.st.db, r.st.rc)
          /\ last' = [CallAt("running", "put", m, r.ref) EXCEPT
                        !.is_new = r.is_new, !.err = r.st.err]
    /\ UNCHANGED <<database, counters, crypto_wrapper, handles>>

\* delete_content(ref) is called with an outstanding reference, which the
\* caller gives up
BeginDelete(e) ==
    /\ last.pc = "done"
    /\ \E st \in {delete_content(
                      Store(database, counters), crypto_wrapper, e.ref, FALSE)} :
          /\ trail' = st.log
          /\ base' = Snapshot(st.db, st.rc)
          /\ last' = [CallAt("running", "delete", e.m, e.ref) EXCEPT
                        !.err = st.err]
    /\ handles' = handles (-) SetToBag({e})
    /\ UNCHANGED <<database, counters, crypto_wrapper>>

\* the running call makes its next mutation
Step ==
    /\ last.pc = "running"
    /\ trail # <<>>
    /\ \E s \in {Mutate(database, counters, Head(trail), base)} :
          /\ database' = s.db
          /\ counters' = s.rc
    /\ trail' = Tail(trail)
    /\ last' = [last EXCEPT !.n = @ + 1]
    /\ UNCHANGED <<crypto_wrapper, handles, base>>

\* the running call has made its mutations and returns, or raises
Return ==
    /\ last.pc = "running"
    /\ trail = <<>>
    /\ last' = [last EXCEPT
                  !.pc = IF last.err = NoErr THEN "done" ELSE "stopped"]
    /\ handles' = IF last.op = "put" /\ last.err = NoErr
                  THEN handles (+) SetToBag({[ref |-> last.ref, m |-> last.m]})
                  ELSE handles
    /\ UNCHANGED <<database, counters, crypto_wrapper, base, trail>>

\* the running call is interrupted where it is
Crash ==
    /\ last.pc = "running"
    /\ last' = [last EXCEPT !.pc = "stopped", !.err = "crash"]
    /\ trail' = <<>>
    /\ UNCHANGED <<database, counters, crypto_wrapper, handles, base>>

\* between two calls the backend's value of k is overwritten by v
Corrupt(k, v) ==
    /\ last.pc = "done"
    /\ StoreGenuine
    /\ database' = SetItem(database, k, v)
    /\ UNCHANGED <<counters, crypto_wrapper, handles, last, base, trail>>

NextSteps ==
    \/ \E m \in Mixed : BeginPut(m)
    \/ \E e \in BagToSet(handles) : BeginDelete(e)
    \/ Step
    \/ Return
    \/ Crash
    \/ \E k \in DOMAIN database : \E v \in ValuesFor(k) : Corrupt(k, v)

SpecSteps == InitSteps /\ [][NextSteps]_vars

\* a call that has made all its mutations has made the store that the whole
\* call makes
StepsMakeTheCall ==
    (last.pc = "running" /\ trail = <<>>) => Now = base

\* a call has stopped before it returned
Stopped == last.pc = "stopped"

\* get_content of the handle e returns its content
Retrieves(e) ==
    get_content(Store(database, counters), crypto_wrapper, e.ref)
        = [err |-> NoErr, val |-> e.m]

\* every node of the tree of the handle e is stored and counted
Kept(e) ==
    \A k \in ReachableFrom(e.ref.k, length_to_height_fn(Len(e.m))) :
        k \in DOMAIN database /\ CountOf(k) >= 1

Consistent(e) == Retrieves(e) /\ Kept(e)

(***************************************************************************)
(* C29.  Abort keeps surviving handles consistent: when a put_content or a *)
(* delete_content has stopped after any of its mutations, interrupted or   *)
(* raising on a node it could not read, every outstanding handle other     *)
(* than the one being put or deleted, with no changed node in its tree,    *)
(* still retrieves its content with get_content, and every node reachable  *)
(* from it is stored with a counter of at least 1.                         *)
(***************************************************************************)
AbortKeepsSurvivors ==
    Stopped =>
        \A e \in BagToSet(handles) : ~ChangedUnder(e.ref) => Consistent(e)

\* the same, but for the retrieval under the wrapper that pads leaves
AbortKeepsSurvivorsUnpadded ==
    Stopped =>
        \A e \in BagToSet(handles) :
            ~ChangedUnder(e.ref)
                => Kept(e) /\ (~crypto_wrapper.pad => Retrieves(e))

\* a delete was interrupted after it deleted a node, and a handle that
\* shares nodes with the deleted one survives
AbortKeepsSurvivorsWitness ==
    /\ Stopped /\ last.op = "delete" /\ last.err = "crash"
    /\ last.n >= 2 /\ Now # base
    /\ \E e \in BagToSet(handles) :
           /\ Consistent(e)
           /\ ShareNodes(e.m, last.m)

\* a content with a short leaf survives a stopped call under the padding
\* wrapper, and get_content returns it with the padding
AbortUnderPadding ==
    /\ Stopped /\ crypto_wrapper.pad
    /\ \E e \in BagToSet(handles) :
           /\ Kept(e) /\ ~Retrieves(e)
           /\ get_content(Store(database, counters), crypto_wrapper,
                          e.ref).err = NoErr

\* a delete raised on a changed node after it decremented counters
AbortOnFailedGet ==
    /\ Stopped /\ last.op = "delete" /\ last.err \notin {NoErr, "crash"}
    /\ last.n >= 1
    /\ \E e \in BagToSet(handles) : ~ChangedUnder(e.ref) /\ Consistent(e)

(***************************************************************************)
(* C30.  Counter never below in-edges: while no value of the backend was   *)
(* changed and no call has stopped, after every single mutation of a       *)
(* put_content or delete_content and between the calls, the counter of     *)
(* every digest k is at least the number of child slots holding k in the   *)
(* stored superchunks plus the number of outstanding handles rooted at k.  *)
(***************************************************************************)
Covered(k) == CountOf(k) >= SlotsHolding(k) + HandlesRootedAt(k)

CounterCoversInEdges ==
    (StoreGenuine /\ ~Stopped) => \A k \in KnownDigests : Covered(k)

\* the same while no delete_content is running
CounterCoversInEdgesOutsideDelete ==
    (StoreGenuine /\ ~Stopped /\ ~(last.op = "delete" /\ last.pc = "running"))
        => \A k \in KnownDigests : Covered(k)

\* inside a delete_content, a stored superchunk lists a child whose counter
\* was decremented already
CounterBelowInEdgesInsideDelete ==
    /\ StoreGenuine
    /\ last.op = "delete" /\ last.pc = "running" /\ trail # <<>>
    /\ \E p \in Slots : ~Covered(ChildrenOf(p[1])[p[2]])

\* a put_content is between two of its mutations
InsidePut == last.op = "put" /\ last.pc = "running"

(***************************************************************************)
(* C31.  Write ordering in store_node: while no value of the backend was   *)
(* changed, at every mutation of a put_content the counters of the         *)
(* children of a new superchunk are incremented before the superchunk is   *)
(* written, and a counter is only incremented for a node that is written   *)
(* already; so at every intermediate step of put_content every stored      *)
(* superchunk has all its children stored with a counter of at least 1.    *)
(***************************************************************************)
WriteOrdering ==
    (InsidePut /\ StoreGenuine) =>
        /\ ChildrenAlive
        /\ \A i \in DOMAIN trail :
               /\ trail[i].op = "inc" =>
                      \/ trail[i].k \in DOMAIN database
                      \/ \E j \in 1..(i - 1) :
                             trail[j] = [op |-> "write", k |-> trail[i].k]
               /\ (trail[i].op = "write" /\ trail[i].k.h > 0) =>
                      \A c \in DOMAIN trail[i].k.kids :
                          \/ CountOf(trail[i].k.kids[c]) >= 1
                          \/ \E j \in 1..(i - 1) :
                                 trail[j] = [op |-> "inc",
                                             k |-> trail[i].k.kids[c]]

\* a put_content has just written a new superchunk and has still to
\* increment the counter of this root
WriteOrderingWitness ==
    /\ InsidePut /\ StoreGenuine
    /\ last.n >= 4
    /\ trail = <<[op |-> "inc", k |-> last.ref.k]>>
    /\ last.ref.k.h > 0
    /\ last.ref.k \in DOMAIN database
    /\ CountOf(last.ref.k) = 0

(***************************************************************************)
(* The chunk tree of a content, read off its boundaries.                   *)
(***************************************************************************)
Range(f) == {f[x] : x \in DOMAIN f}

RECURSIVE Ascending(_)
\* the numbers of the set S as a sequence, least first
Ascending(S) ==
    IF S = {} THEN <<>>
    ELSE LET x == CHOOSE y \in S : \A z \in S : y <= z
         IN <<x>> \o Ascending(S \ {x})

\* (0, h-1) and the chunker's boundaries, without the boundary at the end
\* of m (for an empty m that is the first one), and then (len(m), h-1)
WalkedBoundaries(m, h) ==
    SelectSeq(<<[pos |-> 0, level |-> h - 1]>>
                  \o next_chunk_boundaries_levels(m, h, window_size - 1),
              LAMBDA b : b.pos # Len(m))
    \o <<[pos |-> Len(m), level |-> h - 1]>>

\* the last boundary before the j-th that has at least the level g
PreviousOfLevel(B, g, j) ==
    CHOOSE i \in 1..(j - 1) :
        /\ B[i].level >= g
        /\ \A x \in (i + 1)..(j - 1) : B[x].level < g

RECURSIVE NodeClosedAt(_, _, _, _, _, _)
\* the digest of the node of height g (below the root) that the j-th
\* boundary closes: the leaf between the boundaries j-1 and j, or the
\* superchunk of the nodes one height below that were closed since the
\* previous boundary of at least level g
NodeClosedAt(w, m, B, h, g, j) ==
    IF g = 0
    THEN wrap_value(w, LeafValue(SubSeq(m, B[j - 1].pos + 1, B[j].pos)),
                    0, FALSE).digest
    ELSE LET closed == Ascending({i \in (PreviousOfLevel(B, g, j) + 1)..j :
                                      B[i].level >= g - 1})
         IN wrap_value(w,
                       ListValue([n \in 1..Len(closed) |->
                                      NodeClosedAt(w, m, B, h, g - 1,
                                                   closed[n])]),
                       g, FALSE).digest

\* the digest of the root: the superchunk of all nodes of height h-1
RootClosed(w, m, B, h) ==
    LET closed == Ascending({i \in 2..Len(B) : B[i].level >= h - 1})
    IN wrap_value(w,
                  ListValue([n \in 1..Len(closed) |->
                                 NodeClosedAt(w, m, B, h, h - 1, closed[n])]),
                  h, TRUE).digest

RECURSIVE Concatenation(_)
Concatenation(parts) ==
    IF parts = <<>> THEN <<>> ELSE Head(parts) \o Concatenation(Tail(parts))

\* the last call put a content of height >= 1
PutOfTree ==
    /\ last.op = "put" /\ last.err = NoErr
    /\ length_to_height_fn(Len(last.m)) >= 1

(***************************************************************************)
(* C32.  Tree construction from boundaries: a put_content of a content m   *)
(* of height h >= 1 walks the boundaries (0, h-1), the chunker's           *)
(* boundaries before the end in ascending position, (len(m), h-1); the     *)
(* leaves between consecutive boundaries partition m; a boundary of level  *)
(* lvl closes the superchunks of the heights 1..lvl, each listing in order *)
(* the nodes one height below closed since the previous boundary of at     *)
(* least its level; the root lists all nodes of height h-1; all these      *)
(* nodes are stored, and every stored superchunk has at least one child.   *)
(***************************************************************************)
TreeFromBoundaries ==
    PutOfTree =>
        LET m == last.m
            h == length_to_height_fn(Len(last.m))
            B == WalkedBoundaries(last.m, length_to_height_fn(Len(last.m)))
        IN /\ \A j \in 2..Len(B) : B[j - 1].pos < B[j].pos
           /\ Concatenation([j \in 1..(Len(B) - 1) |->
                                 SubSeq(m, B[j].pos + 1, B[j + 1].pos)]) = m
           /\ last.ref.k = RootClosed(crypto_wrapper, m, B, h)
           /\ \A g \in 0..(h - 1) : \A j \in 2..Len(B) :
                  B[j].level >= g =>
                      NodeClosedAt(crypto_wrapper, m, B, h, g, j)
                          \in DOMAIN database
           /\ \A d \in DOMAIN database : d.h > 0 => Len(database[d].kids) >= 1

\* a content of height 2 whose boundary of the chunker at its end has a
\* level below h-1 and is replaced, with a superchunk of height 1 closed
\* before the end
TreeFromBoundariesWitness ==
    /\ PutOfTree
    /\ length_to_height_fn(Len(last.m)) >= 2
    /\ \E b \in Range(next_chunk_boundaries_levels(
                          last.m, length_to_height_fn(Len(last.m)),
                          window_size - 1)) :
           b.pos = Len(last.m) /\ b.level < length_to_height_fn(Len(last.m)) - 1
    /\ \E b \in Range(WalkedBoundaries(last.m,
                                       length_to_height_fn(Len(last.m)))) :
           b.pos \in 1..(Len(last.m) - 1) /\ b.level >= 1
    /\ last.ref.k \in DOMAIN database

(***************************************************************************)
(* delete_content, one statement at a time, on any backend.  The database  *)
(* maps keys to lists of child keys, which may form cycles; _get_node      *)
(* returns the stored list as it is, or raises.  trail is the stack of the *)
(* running _delete_chunk calls, the innermost last: k and h are the        *)
(* arguments of a call, v the children it read, i the child it is at.      *)
(***************************************************************************)
MaxChildren == 2
MaxHeight == 2

ChildLists ==
    {ListValue(v) : v \in UNION {[1..n -> NodeKeys] : n \in 0..MaxChildren}}

Frame(k, h, v) == [k |-> k, h |-> h, v |-> v, i |-> 1]

DeleteCall(pc, k, h, err) ==
    [op |-> "delete", pc |-> pc, k |-> k, h |-> h, err |-> err]

InitDelete ==
    /\ database \in UNION {[D -> ChildLists] : D \in SUBSET NodeKeys}
    /\ counters \in UNION {[D -> 1..MaxCount] : D \in SUBSET NodeKeys}
    /\ crypto_wrapper = SHA_256
    /\ handles = EmptyBag
    /\ last = DeleteCall("done", <<>>, 0, NoErr)
    /\ base = Snapshot(EmptyDict, EmptyDict)
    /\ trail = <<>>

\* a _delete_chunk that calls itself with the height it was called with
_delete_chunk_call_same_height(stack, k_child, h) ==
    Append(stack, Frame(k_child, h, <<>>))

\* self._delete_chunk(k_child, h - 1, root_h), called from a call of height h
_delete_chunk_call(stack, k_child, h) ==
    Append(stack, Frame(k_child, h - 1, <<>>))

\* an exception leaves all running calls
Raised(err) ==
    /\ last' = [last EXCEPT !.pc = "done", !.err = err]
    /\ trail' = <<>>

\* _delete_content: dec(k), and _delete_chunk(k, h, root_h) when it is 0
CallDeleteContent(k, h) ==
    /\ last.pc = "done"
    /\ \E d \in {dec(Store(database, counters), k)} :
          /\ counters' = d.st.rc
          /\ IF d.st.err # NoErr
             THEN /\ last' = DeleteCall("done", k, h, d.st.err)
                  /\ trail' = <<>>
             ELSE IF d.count = 0
             THEN /\ last' = DeleteCall("running", k, h, NoErr)
                  /\ trail' = <<Frame(k, h, <<>>)>>
             ELSE /\ last' = DeleteCall("done", k, h, NoErr)
                  /\ trail' = <<>>
    /\ UNCHANGED <<database, crypto_wrapper, handles, base>>

\* the innermost running call
Top == trail[Len(trail)]

\* v = self._get_node(k, h, root_h) of a call that has just begun
ReadChildren ==
    /\ last.pc = "running"
    /\ Top.h > 0 /\ Top.i = 1 /\ Top.v = <<>>
    /\ \/ /\ Top.k \in DOMAIN database
          /\ database[Top.k].kids # <<>>
          /\ trail' = [trail EXCEPT ![Len(trail)].v = database[Top.k].kids]
          /\ UNCHANGED last
       \/ /\ Top.k \in DOMAIN database
          /\ database[Top.k].kids = <<>>
          /\ trail' = [trail EXCEPT ![Len(trail)].i = 2]
          /\ UNCHANGED last
       \/ /\ Top.k \in DOMAIN database
          /\ Raised(WrapperError(crypto_wrapper))
       \/ /\ Top.k \notin DOMAIN database
          /\ Raised("KeyError")
    /\ UNCHANGED <<database, counters, crypto_wrapper, handles, base>>

\* if self._reference_counter.dec(k_child) == 0: self._delete_chunk(...)
DecChild ==
    /\ last.pc = "running"
    /\ Top.v # <<>> /\ Top.i <= Len(Top.v)
    /\ \E d \in {dec(Store(database, counters), Top.v[Top.i])} :
          /\ counters' = d.st.rc
          /\ IF d.st.err # NoErr THEN Raised(d.st.err)
             ELSE /\ trail' =
                        IF d.count = 0
                        THEN _delete_chunk_call(
                                 [trail EXCEPT ![Len(trail)].i = @ + 1],
                                 Top.v[Top.i], Top.h)
                        ELSE [trail EXCEPT ![Len(trail)].i = @ + 1]
                  /\ UNCHANGED last
    /\ UNCHANGED <<database, crypto_wrapper, handles, base>>

\* del self._database[k], and the call returns
RemoveNode ==
    /\ last.pc = "running"
    /\ \/ Top.h = 0
       \/ Top.i > Len(Top.v) /\ (Top.v # <<>> \/ Top.i = 2)
    /\ IF Top.k \notin DOMAIN database
       THEN Raised("KeyError") /\ UNCHANGED database
       ELSE /\ database' = DelItem(database, Top.k)
            /\ trail' = SubSeq(trail, 1, Len(trail) - 1)
            /\ last' = [last EXCEPT
                          !.pc = IF Len(trail) = 1 THEN "done" ELSE "running"]
    /\ UNCHANGED <<counters, crypto_wrapper, handles, base>>

NextDelete ==
    \/ \E k \in NodeKeys : \E h \in 0..MaxHeight : CallDeleteContent(k, h)
    \/ ReadChildren
    \/ DecChild
    \/ RemoveNode

\* a running call goes on: nothing but its own statements stops it
SpecDelete ==
    InitDelete /\ [][NextDelete]_vars
    /\ WF_vars(ReadChildren \/ DecChild \/ RemoveNode)

DeleteRunning == last.op = "delete" /\ last.pc = "running"

(***************************************************************************)
(* C33.  delete_content terminates: on every backend state, also one whose *)
(* entries form a cycle of keys, every running _delete_chunk call has a    *)
(* height one less than its caller's and none is below height 0, so at     *)
(* most h + 1 calls run at a time, and a running delete_content returns    *)
(* or raises after finitely many steps.                                    *)
(***************************************************************************)
DeleteTerminates ==
    /\ [](DeleteRunning =>
              /\ Len(trail) <= last.h + 1
              /\ \A j \in DOMAIN trail :
                     trail[j].h = last.h - (j - 1) /\ trail[j].h >= 0)
    /\ (DeleteRunning ~> ~DeleteRunning)

\* a delete follows a cycle of keys: the innermost of two running calls, at
\* height 0 less than its caller's, has a key whose stored children lead
\* back to the key of its caller
DeleteTerminatesWitness ==
    /\ DeleteRunning
    /\ Len(trail) = 2 /\ last.h = 1
    /\ trail[1].k # trail[2].k
    /\ trail[2].k \in Range(trail[1].v)
    /\ trail[2].k \in DOMAIN database
    /\ trail[1].k \in Range(database[trail[2].k].kids)

RECURSIVE PutsOf(_)
\* one put of every outstanding handle's content, in some order
PutsOf(B) ==
    IF B = EmptyBag THEN <<>>
    ELSE LET e == CHOOSE x \in BagToSet(B) : TRUE
         IN <<[op |-> "put", m |-> e.m]>> \o PutsOf(B (-) SetToBag({e}))

(***************************************************************************)
(* C34.  History independence: after any sequence of put_content and       *)
(* delete_content calls from the empty store on, each delete of an         *)
(* outstanding handle, the database and the counters are those that one    *)
(* put of each outstanding content on an empty store makes: they depend    *)
(* on the multiset of outstanding contents only, not on the order of the   *)
(* calls nor on contents put and deleted in between.                       *)
(***************************************************************************)
HistoryIndependence ==
    Now = Replay(Snapshot(EmptyDict, EmptyDict), PutsOf(handles))

\* a content that shares nodes with the outstanding one was put before it
\* and deleted after it
HistoryIndependenceWitness ==
    /\ last.op = "delete" /\ last.err = NoErr
    /\ BagCardinality(handles) = 1
    /\ \E e \in BagToSet(handles) :
           /\ e.m # last.m
           /\ ShareNodes(e.m, last.m)
           /\ length_to_height_fn(Len(e.m)) >= 1
    /\ Len(trail) = 3
    /\ trail[1].m = last.m /\ trail[1].op = "put"
    /\ trail[2].op = "put"

(***************************************************************************)
(* C35.  get_content is read-only: whatever the reference (outstanding,    *)
(* forged, of a wrong size) and whatever the state of the backend (also    *)
(* with changed values), and whether get_content returns a content or      *)
(* raises, the database and the counters after the call are those before   *)
(* it.                                                                     *)
(***************************************************************************)
GetReadOnly == last.op = "get" => Now = base

\* a get_content of an outstanding reference raised on a changed value, and
\* left the store as it was
GetReadOnlyWitness ==
    /\ GetOfOutstanding
    /\ last.err = WrapperError(crypto_wrapper)
    /\ ~StoreGenuine
    /\ DOMAIN counters # {}
    /\ Now = base

(***************************************************************************)
(* The engine with a NoReferenceCounter (rc.py).  Its inc and dec return 1 *)
(* and leave the store alone; the delete path is the one of SecCSLite,     *)
(* with this counter in the place of the counting one.                     *)
(***************************************************************************)
\* NoReferenceCounter.inc
NoReferenceCounter_inc(st, key) == [st |-> st, count |-> 1]

\* a dec that reports that no reference is left
NoReferenceCounter_dec_zero(st, key) == [st |-> st, count |-> 0]

\* NoReferenceCounter.dec
NoReferenceCounter_dec(st, key) == [st |-> st, count |-> 1]

RECURSIVE DeleteChildrenUncounted(_, _, _, _, _, _)
RECURSIVE _delete_chunk_uncounted(_, _, _, _, _)
\* for (k_child, ) in v: if dec(k_child) == 0: _delete_chunk(k_child, h - 1)
DeleteChildrenUncounted(st, w, kids, i, h, root_h) ==
    IF i > Len(kids) \/ st.err # NoErr THEN st
    ELSE LET child(d) ==
                 IF d.st.err = NoErr /\ d.count = 0
                 THEN _delete_chunk_uncounted(d.st, w, kids[i], h - 1, root_h)
                 ELSE d.st
         IN DeleteChildrenUncounted(child(NoReferenceCounter_dec(st, kids[i])),
                                    w, kids, i + 1, h, root_h)

\* SecCSLite._delete_chunk
_delete_chunk_uncounted(st, w, k, h, root_h) ==
    LET children(v) ==
            IF v.err # NoErr THEN Raise(st, v.err)
            ELSE IF v.none THEN Raise(st, "TypeError")
            ELSE DeleteChildrenUncounted(st, w, v.val.kids, 1, h, root_h)
        node(st1) ==
            IF st1.err # NoErr THEN st1
            ELSE IF k \notin DOMAIN st1.db THEN Raise(st1, "KeyError")
            ELSE [st1 EXCEPT !.db = DelItem(@, k),
                             !.log = Append(@, [op |-> "del", k |-> k])]
    IN node(IF h > 0 THEN children(_get_node(st, w, k, h, root_h, -1))
            ELSE st)

\* SecCSLite._delete_content
_delete_content_uncounted(st, w, k, h, root_h, l, ignore_rc) ==
    LET counted(d) ==
            IF d.st.err # NoErr THEN d.st
            ELSE IF d.count = 0
            THEN _delete_chunk_uncounted(d.st, w, k, h, root_h)
            ELSE d.st
    IN IF ignore_rc THEN _delete_chunk_uncounted(st, w, k, h, root_h)
       ELSE counted(NoReferenceCounter_dec(st, k))

\* SecCSLite.delete_content
delete_content_uncounted(st, w, ref, ignore_rc) ==
    LET at(k, l, h) == _delete_content_uncounted(st, w, k, h, h, l, ignore_rc)
        of(kl) == IF kl.err # NoErr THEN Raise(st, kl.err)
                  ELSE at(kl.k, kl.l, length_to_height_fn(kl.l))
    IN of(unpack_content_reference(ref))

\* rc.inc(key) of the NoReferenceCounter
IncUncounted(key) ==
    /\ \E r \in {NoReferenceCounter_inc(Store(database, counters), key)} :
          /\ counters' = r.st.rc
          /\ database' = r.st.db
          /\ last' = [op |-> "inc", key |-> key, count |-> r.count,
                      err |-> r.st.err]
    /\ base' = Snapshot(database, counters)
    /\ UNCHANGED <<crypto_wrapper, handles, trail>>

\* rc.dec(key) of the NoReferenceCounter
DecUncounted(key) ==
    /\ \E r \in {NoReferenceCounter_dec(Store(database, counters), key)} :
          /\ counters' = r.st.rc
          /\ database' = r.st.db
          /\ last' = [op |-> "dec", key |-> key, count |-> r.count,
                      err |-> r.st.err]
    /\ base' = Snapshot(database, counters)
    /\ UNCHANGED <<crypto_wrapper, handles, trail>>

\* put_content(m): the nodes are written as with any counter, and the incs
\* of the NoReferenceCounter keep nothing
PutUncounted(m) ==
    /\ BagCardinality(handles) < MaxHandles
    /\ \E r \in {put_content_and_check_if_new(
                     Store(database, counters), crypto_wrapper, m, FALSE)} :
          /\ database' = r.st.db
          /\ handles' = IF r.st.err = NoErr
                        THEN handles (+) SetToBag({[ref |-> r.ref, m |-> m]})
                        ELSE handles
          /\ last' = [CallRc("put", m, r.ref, FALSE) EXCEPT
                        !.is_new = r.is_new, !.err = r.st.err]
    /\ base' = Snapshot(database, counters)
    /\ UNCHANGED <<counters, crypto_wrapper, trail>>

\* delete_content(ref, ignore_rc) of an outstanding reference
DeleteUncounted(e, ignore_rc) ==
    /\ \E st \in {delete_content_uncounted(
                      Store(database, counters), crypto_wrapper, e.ref,
                      ignore_rc)} :
          /\ database' = st.db
          /\ counters' = st.rc
          /\ last' = [CallRc("delete", e.m, e.ref, ignore_rc) EXCEPT
                        !.err = st.err]
    /\ handles' = handles (-) SetToBag({e})
    /\ base' = Snapshot(database, counters)
    /\ UNCHANGED <<crypto_wrapper, trail>>

NextUncounted ==
    \/ \E key \in NodeKeys : IncUncounted(key)
    \/ \E key \in NodeKeys : DecUncounted(key)
    \/ \E m \in Mixed : PutUncounted(m)
    \/ \E e \in BagToSet(handles) : \E ignore_rc \in BOOLEAN :
           DeleteUncounted(e, ignore_rc)

SpecUncounted == Init /\ [][NextUncounted]_vars

(***************************************************************************)
(* C36.  NoReferenceCounter disables reclamation: its inc and dec return 1 *)
(* for every key in every state and keep no state; with it, a              *)
(* delete_content(handle) removes no entry of the database, and a          *)
(* delete_content(handle, ignore_rc=True) removes the root node only and   *)
(* never a child.                                                          *)
(***************************************************************************)
NoReclamation ==
    /\ counters = EmptyDict
    /\ last.op \in {"inc", "dec"} =>
           last.count = 1 /\ last.err = NoErr /\ Now = base
    /\ (last.op = "delete" /\ ~last.ignore_rc) =>
           last.err = NoErr /\ database = base.db
    /\ (last.op = "delete" /\ last.ignore_rc) =>
           /\ DOMAIN base.db \ DOMAIN database \subseteq {last.ref.k}
           /\ \A k \in DOMAIN database : database[k] = base.db[k]
           /\ last.err = NoErr => last.ref.k \notin DOMAIN database

\* a delete_content with ignore_rc removed the root superchunk of a content
\* and left its children in the database
NoReclamationWitness ==
    /\ last.op = "delete" /\ last.ignore_rc /\ last.err = NoErr
    /\ last.ref.k.h > 0
    /\ last.ref.k \in DOMAIN base.db
    /\ last.ref.k \notin DOMAIN database
    /\ \A c \in DOMAIN last.ref.k.kids : last.ref.k.kids[c] \in DOMAIN database

=============================================================================
